---------------------------- MODULE Spec2Model ----------------------------
(***************************************************************************)
(* A model of the usb.ids repository: the registry parser, the version     *)
(* record, the update gate, and the refresh (fetchUsbIdsData) with its     *)
(* callers, over a file system of three files; then the download loop, the *)
(* diff-hash script, the cached API variant and the web UI's pagination.   *)
(*                                                                         *)
(* A JavaScript string is a sequence of one-character strings.  An object  *)
(* (Record<string, T>) is the sequence of its [key, val] entries in the    *)
(* order Object.keys enumerates them.                                      *)
(***************************************************************************)
EXTENDS Integers, Sequences, FiniteSets, TLC

VARIABLES
    files,      \* the persisted files under root: file name -> content
    clock,      \* Date.now(), epoch milliseconds
    call,       \* per process: the running command and its fetchUsbIdsData call
    content,    \* parser harness: the input string
    result,     \* parser harness: what parseUsbIds returned
    gate,       \* update-gate harness: inputs and the two implementations' answers
    query,      \* the async API's query and its answer; query harness: dataset, call, answer
    streak,     \* history: the content hash the last refresh ended Unchanged on, while it lasts
    fetcher,    \* download harness: downloadFromUrls' loop over its origins
    diff,       \* diff-hash script: what it found and its exit code
    cache,      \* cached API: cachedData, cacheTimestamp and the queries in flight
    ui          \* web UI: currentResults' length, currentPage, itemsPerPage

\* the programs that stand apart from the refresh and from the first three harnesses
others == <<fetcher, diff, cache, ui>>

vars == <<files, clock, call, content, result, gate, query, streak, others>>

----------------------------------------------------------------------------
(* Strings *)

Digits == {"0", "1", "2", "3", "4", "5", "6", "7", "8", "9"}

HexDigits == Digits \cup {"a", "b", "c", "d", "e", "f", "A", "B", "C", "D", "E", "F"}

\* what \s and String.prototype.trim treat as white space (of the characters used)
WhiteSpace == {" ", "\t", "\r", "\n"}

\* what the regular expression's . does not match
LineTerminators == {"\n", "\r"}

toLowerCaseChar(c) ==
    CASE c = "A" -> "a" [] c = "B" -> "b" [] c = "C" -> "c"
      [] c = "D" -> "d" [] c = "E" -> "e" [] c = "F" -> "f"
      [] c = "G" -> "g" [] c = "V" -> "v"
      [] OTHER -> c

toLowerCase(s) == [i \in 1..Len(s) |-> toLowerCaseChar(s[i])]

startsWith(s, prefix) ==
    /\ Len(s) >= Len(prefix)
    /\ SubSeq(s, 1, Len(prefix)) = prefix

RECURSIVE trimStart(_)
trimStart(s) ==
    IF s # <<>> /\ Head(s) \in WhiteSpace THEN trimStart(Tail(s)) ELSE s

RECURSIVE trimEnd(_)
trimEnd(s) ==
    IF s # <<>> /\ s[Len(s)] \in WhiteSpace
    THEN trimEnd(SubSeq(s, 1, Len(s) - 1))
    ELSE s

trim(s) == trimEnd(trimStart(s))

\* content.split('\n'): the pieces between the separators, at least one
RECURSIVE split(_, _)
split(s, sep) ==
    IF \E i \in 1..Len(s) : s[i] = sep
    THEN LET i == CHOOSE k \in 1..Len(s) :
                      /\ s[k] = sep
                      /\ \A j \in 1..(k - 1) : s[j] # sep
         IN  <<SubSeq(s, 1, i - 1)>> \o split(SubSeq(s, i + 1, Len(s)), sep)
    ELSE <<s>>

\* lines.join('\n')
RECURSIVE join(_, _)
join(lines, sep) ==
    IF lines = <<>> THEN <<>>
    ELSE IF Len(lines) = 1 THEN lines[1]
    ELSE lines[1] \o <<sep>> \o join(Tail(lines), sep)

DigitValue(c) ==
    CASE c = "0" -> 0 [] c = "1" -> 1 [] c = "2" -> 2 [] c = "3" -> 3
      [] c = "4" -> 4 [] c = "5" -> 5 [] c = "6" -> 6 [] c = "7" -> 7
      [] c = "8" -> 8 [] c = "9" -> 9

DigitChar(d) ==
    CASE d = 0 -> "0" [] d = 1 -> "1" [] d = 2 -> "2" [] d = 3 -> "3"
      [] d = 4 -> "4" [] d = 5 -> "5" [] d = 6 -> "6" [] d = 7 -> "7"
      [] d = 8 -> "8" [] d = 9 -> "9"

\* the value of a string of decimal digits
RECURSIVE ToNumber(_)
ToNumber(s) ==
    IF s = <<>> THEN 0
    ELSE 10 * ToNumber(SubSeq(s, 1, Len(s) - 1)) + DigitValue(s[Len(s)])

\* `${n}` for a non-negative integer n
RECURSIVE ToDecimal(_)
ToDecimal(n) ==
    IF n < 10 THEN <<DigitChar(n)>>
    ELSE ToDecimal(n \div 10) \o <<DigitChar(n % 10)>>

----------------------------------------------------------------------------
(* Objects: own string keys in Object.keys order.  Integer-like keys       *)
(* ("1234", not "0001") come first in ascending numeric order, the other   *)
(* keys follow in insertion order; assigning to an existing key keeps its  *)
(* place.                                                                  *)

IsArrayIndex(key) ==
    /\ key # <<>>
    /\ \A i \in 1..Len(key) : key[i] \in Digits
    /\ (key[1] # "0" \/ Len(key) = 1)

HasKey(obj, key) == \E i \in 1..Len(obj) : obj[i].key = key

ObjGet(obj, key) == obj[CHOOSE i \in 1..Len(obj) : obj[i].key = key].val

ObjSet(obj, key, val) ==
    LET entry == [key |-> key, val |-> val] IN
    IF HasKey(obj, key)
    THEN [i \in 1..Len(obj) |-> IF obj[i].key = key THEN entry ELSE obj[i]]
    ELSE IF IsArrayIndex(key)
    THEN LET n == Cardinality({i \in 1..Len(obj) :
                       /\ IsArrayIndex(obj[i].key)
                       /\ ToNumber(obj[i].key) < ToNumber(key)})
         IN  SubSeq(obj, 1, n) \o <<entry>> \o SubSeq(obj, n + 1, Len(obj))
    ELSE Append(obj, entry)

ObjKeys(obj) == [i \in 1..Len(obj) |-> obj[i].key]

ObjValues(obj) == [i \in 1..Len(obj) |-> obj[i].val]

----------------------------------------------------------------------------
(* parseUsbIds *)

\* line.match(/^([0-9a-f]{4})\s(.+)$/i)
VendorMatch(line) ==
    IF /\ Len(line) >= 6
       /\ \A i \in 1..4 : line[i] \in HexDigits
       /\ line[5] \in WhiteSpace
       /\ \A i \in 6..Len(line) : line[i] \notin LineTerminators
    THEN [ok |-> TRUE, id |-> SubSeq(line, 1, 4), name |-> SubSeq(line, 6, Len(line))]
    ELSE [ok |-> FALSE]

\* line.match(/^\t([0-9a-f]{4})\s(.+)$/i)
DeviceMatch(line) ==
    IF /\ Len(line) >= 7
       /\ line[1] = "\t"
       /\ \A i \in 2..5 : line[i] \in HexDigits
       /\ line[6] \in WhiteSpace
       /\ \A i \in 7..Len(line) : line[i] \notin LineTerminators
    THEN [ok |-> TRUE, id |-> SubSeq(line, 2, 5), name |-> SubSeq(line, 7, Len(line))]
    ELSE [ok |-> FALSE]

\* currentVendor = null: no vendor header seen yet (falsy, as is '')
NoVendor == <<>>

\* ParseLine with a malformed header line ending the current vendor
ParseLineResetOnMalformed(st, line) ==
    IF startsWith(line, <<"#">>) \/ trim(line) = <<>>
    THEN st
    ELSE IF ~startsWith(line, <<"\t">>)
    THEN LET match == VendorMatch(line) IN
         IF match.ok
         THEN LET currentVendor == toLowerCase(match.id) IN
              [st EXCEPT !.result = ObjSet(@, currentVendor,
                                           [vendor |-> currentVendor,
                                            name |-> trim(match.name),
                                            devices |-> <<>>]),
                         !.currentVendor = currentVendor]
         ELSE [st EXCEPT !.currentVendor = NoVendor]
    ELSE IF /\ startsWith(line, <<"\t">>)
            /\ ~startsWith(line, <<"\t", "\t">>)
            /\ st.currentVendor # NoVendor
    THEN LET match == DeviceMatch(line) IN
         IF match.ok
         THEN LET deviceIdLower == toLowerCase(match.id)
                  vendor == ObjGet(st.result, st.currentVendor)
              IN  [st EXCEPT !.result =
                      ObjSet(@, st.currentVendor,
                             [vendor EXCEPT !.devices =
                                 ObjSet(@, deviceIdLower,
                                        [devid |-> deviceIdLower,
                                         devname |-> trim(match.name)])])]
         ELSE st
    ELSE st

\* ParseLine with a repeated vendor header keeping the devices listed so far
ParseLineKeepDevices(st, line) ==
    IF st.threw
    THEN st
    ELSE IF startsWith(line, <<"#">>) \/ trim(line) = <<>>
    THEN st
    ELSE IF ~startsWith(line, <<"\t">>)
    THEN LET match == VendorMatch(line) IN
         IF match.ok
         THEN LET currentVendor == toLowerCase(match.id) IN
              [st EXCEPT !.result = ObjSet(@, currentVendor,
                                           [vendor |-> currentVendor,
                                            name |-> trim(match.name),
                                            devices |->
                                                IF HasKey(st.result, currentVendor)
                                                THEN ObjGet(st.result, currentVendor).devices
                                                ELSE <<>>]),
                         !.currentVendor = currentVendor]
         ELSE st
    ELSE IF /\ startsWith(line, <<"\t">>)
            /\ ~startsWith(line, <<"\t", "\t">>)
            /\ st.currentVendor # NoVendor
    THEN LET match == DeviceMatch(line) IN
         IF match.ok /\ ~HasKey(st.result, st.currentVendor)
         THEN [st EXCEPT !.threw = TRUE]
         ELSE IF match.ok
         THEN LET deviceIdLower == toLowerCase(match.id)
                  vendor == ObjGet(st.result, st.currentVendor)
              IN  [st EXCEPT !.result =
                      ObjSet(@, st.currentVendor,
                             [vendor EXCEPT !.devices =
                                 ObjSet(@, deviceIdLower,
                                        [devid |-> deviceIdLower,
                                         devname |-> trim(match.name)])])]
         ELSE st
    ELSE st

\* ParseLine with a comment or blank line ending the current vendor
ParseLineResetOnComment(st, line) ==
    IF st.threw
    THEN st
    ELSE IF startsWith(line, <<"#">>) \/ trim(line) = <<>>
    THEN [st EXCEPT !.currentVendor = NoVendor]
    ELSE IF ~startsWith(line, <<"\t">>)
    THEN LET match == VendorMatch(line) IN
         IF match.ok
         THEN LET currentVendor == toLowerCase(match.id) IN
              [st EXCEPT !.result = ObjSet(@, currentVendor,
                                           [vendor |-> currentVendor,
                                            name |-> trim(match.name),
                                            devices |-> <<>>]),
                         !.currentVendor = currentVendor]
         ELSE st
    ELSE IF /\ startsWith(line, <<"\t">>)
            /\ ~startsWith(line, <<"\t", "\t">>)
            /\ st.currentVendor # NoVendor
    THEN LET match == DeviceMatch(line) IN
         IF match.ok /\ ~HasKey(st.result, st.currentVendor)
         THEN [st EXCEPT !.threw = TRUE]
         ELSE IF match.ok
         THEN LET deviceIdLower == toLowerCase(match.id)
                  vendor == ObjGet(st.result, st.currentVendor)
              IN  [st EXCEPT !.result =
                      ObjSet(@, st.currentVendor,
                             [vendor EXCEPT !.devices =
                                 ObjSet(@, deviceIdLower,
                                        [devid |-> deviceIdLower,
                                         devname |-> trim(match.name)])])]
         ELSE st
    ELSE st

\* ParseLine with the vendor id kept as written
ParseLineKeepCase(st, line) ==
    IF st.threw
    THEN st
    ELSE IF startsWith(line, <<"#">>) \/ trim(line) = <<>>
    THEN st
    ELSE IF ~startsWith(line, <<"\t">>)
    THEN LET match == VendorMatch(line) IN
         IF match.ok
         THEN LET currentVendor == match.id IN
              [st EXCEPT !.result = ObjSet(@, currentVendor,
                                           [vendor |-> currentVendor,
                                            name |-> trim(match.name),
                                            devices |-> <<>>]),
                         !.currentVendor = currentVendor]
         ELSE st
    ELSE IF /\ startsWith(line, <<"\t">>)
            /\ ~startsWith(line, <<"\t", "\t">>)
            /\ st.currentVendor # NoVendor
    THEN LET match == DeviceMatch(line) IN
         IF match.ok /\ ~HasKey(st.result, st.currentVendor)
         THEN [st EXCEPT !.threw = TRUE]
         ELSE IF match.ok
         THEN LET deviceIdLower == toLowerCase(match.id)
                  vendor == ObjGet(st.result, st.currentVendor)
              IN  [st EXCEPT !.result =
                      ObjSet(@, st.currentVendor,
                             [vendor EXCEPT !.devices =
                                 ObjSet(@, deviceIdLower,
                                        [devid |-> deviceIdLower,
                                         devname |-> trim(match.name)])])]
         ELSE st
    ELSE st

\* the loop body: st = [result, currentVendor, threw] before the line, the value
\* is st after it; threw: result[currentVendor] is undefined where its devices
\* are assigned to (a TypeError)
ParseLine(st, line) ==
    IF st.threw
    THEN st
    ELSE IF startsWith(line, <<"#">>) \/ trim(line) = <<>>
    THEN st
    ELSE IF ~startsWith(line, <<"\t">>)
    THEN LET match == VendorMatch(line) IN
         IF match.ok
         THEN LET currentVendor == toLowerCase(match.id) IN
              [st EXCEPT !.result = ObjSet(@, currentVendor,
                                           [vendor |-> currentVendor,
                                            name |-> trim(match.name),
                                            devices |-> <<>>]),
                         !.currentVendor = currentVendor]
         ELSE st
    ELSE IF /\ startsWith(line, <<"\t">>)
            /\ ~startsWith(line, <<"\t", "\t">>)
            /\ st.currentVendor # NoVendor
    THEN LET match == DeviceMatch(line) IN
         IF match.ok /\ ~HasKey(st.result, st.currentVendor)
         THEN [st EXCEPT !.threw = TRUE]
         ELSE IF match.ok
         THEN LET deviceIdLower == toLowerCase(match.id)
                  vendor == ObjGet(st.result, st.currentVendor)
              IN  [st EXCEPT !.result =
                      ObjSet(@, st.currentVendor,
                             [vendor EXCEPT !.devices =
                                 ObjSet(@, deviceIdLower,
                                        [devid |-> deviceIdLower,
                                         devname |-> trim(match.name)])])]
         ELSE st
    ELSE st

RECURSIVE ParseLines(_, _)
ParseLines(st, lines) ==
    IF lines = <<>> THEN st
    ELSE ParseLines(ParseLine(st, Head(lines)), Tail(lines))

\* the call's outcome: [threw, result]
ParseOutcome(text) ==
    ParseLines([result |-> <<>>, currentVendor |-> NoVendor, threw |-> FALSE],
               split(text, "\n"))

parseUsbIds(text) == ParseOutcome(text).result

----------------------------------------------------------------------------
(* Texts, JSON, the content hash *)

\* a string that is registry text (a download, the usb.ids file)
RawText(s) == [kind |-> "raw", text |-> s]

\* JSON.stringify(value, null, indent): a string that is the JSON of value
JsonText(value, indent) == [kind |-> "json", indent |-> indent, value |-> value]

\* JSON.parse(text): registry text is no JSON document, the call throws a SyntaxError
JSONparse(text) ==
    IF text.kind = "json" THEN [ok |-> TRUE, value |-> text.value] ELSE [ok |-> FALSE]

\* crypto.createHash('sha256').update(content).digest('hex'): one digest per string
generateContentHash(text) == [sha256 |-> text]

----------------------------------------------------------------------------
(* The version record *)

\* loadVersionInfo's null
NoVersion == [kind |-> "null"]

CountDevices(data) ==
    LET RECURSIVE Sum(_)
        Sum(i) == IF i = 0 THEN 0 ELSE Sum(i - 1) + Len(ObjKeys(data[i].val.devices))
    IN  Sum(Len(data))

\* src/parser.ts, used by the CLI and the API (fetchTimeFormatted, a display string, is left out)
createVersionInfo(data, rawContent, source, now) ==
    [fetchTime |-> now,
     contentHash |-> generateContentHash(rawContent),
     source |-> source,
     vendorCount |-> Len(ObjKeys(data)),
     deviceCount |-> CountDevices(data),
     version |-> <<"v", "1", ".", "0", ".">> \o ToDecimal(now)]

\* plugins/plugin-usb-ids/utils.ts, used by the scripts (its rewrite of package.json is left out)
createVersionInfoPlugin(data, rawContent, source, now) ==
    [fetchTime |-> now,
     contentHash |-> generateContentHash(rawContent),
     source |-> source,
     vendorCount |-> Len(ObjKeys(data)),
     deviceCount |-> CountDevices(data),
     version |-> <<"1", ".", "0", ".">> \o ToDecimal(now)]

----------------------------------------------------------------------------
(* The update gate *)

MsPerHour == 3600000

GateHours == 24

DayInMs == 86400000

\* shouldUpdate with the threshold exclusive: more than 24 h must have elapsed
shouldUpdateStrict(versionInfo, forceUpdate, now) ==
    IF forceUpdate THEN TRUE
    ELSE IF versionInfo = NoVersion THEN TRUE
    ELSE LET timeDiff == now - versionInfo.fetchTime
             hoursDiff == [num |-> timeDiff, den |-> MsPerHour]
         IN  hoursDiff.num > GateHours * hoursDiff.den

\* src/parser.ts: hoursDiff = timeDiff / (1000 * 60 * 60), a quotient kept as
\* numerator and denominator; hoursDiff >= 24 compares it with 24 (the double
\* nearest the quotient is >= 24 exactly when the quotient is: 24 is a double,
\* and a quotient below 24 is below it by more than 1e-7).
shouldUpdate(versionInfo, forceUpdate, now) ==
    IF forceUpdate THEN TRUE
    ELSE IF versionInfo = NoVersion THEN TRUE
    ELSE LET timeDiff == now - versionInfo.fetchTime
             hoursDiff == [num |-> timeDiff, den |-> MsPerHour]
         IN  hoursDiff.num >= GateHours * hoursDiff.den

\* plugins/plugin-usb-ids/utils.ts: now - fetchTime >= dayInMs
shouldUpdatePlugin(versionInfo, forceUpdate, now) ==
    IF forceUpdate THEN TRUE
    ELSE IF versionInfo = NoVersion THEN TRUE
    ELSE now - versionInfo.fetchTime >= DayInMs

----------------------------------------------------------------------------
(* The file system and the remote origins *)

USB_IDS_FILE == "usb.ids"

USB_IDS_JSON_FILE == "usb.ids.json"

USB_IDS_VERSION_JSON_FILE == "usb.ids.version.json"

FileNames == {USB_IDS_FILE, USB_IDS_JSON_FILE, USB_IDS_VERSION_JSON_FILE}

\* fs.existsSync(path) is false
NoFile == [kind |-> "none"]

existsSync(fs, name) == fs[name] # NoFile

\* loadJsonFile / loadVersionInfo: null when the file is missing or is no JSON
loadVersionInfo(fs, name) ==
    IF ~existsSync(fs, name) THEN NoVersion
    ELSE IF JSONparse(fs[name]).ok THEN JSONparse(fs[name]).value
    ELSE NoVersion

\* USB_IDS_SOURCE: the origins, tried in this order
USB_IDS_SOURCE == <<"linux-usb.org", "raw.githubusercontent.com">>

\* registry texts an origin may serve: "1234 V\n\t00a1 D" and the same with a
\* second device, "1234 V\n\t00a1 D\n\t00a2 E"
RegistryA == <<"1", "2", "3", "4", " ", "V", "\n", "\t", "0", "0", "a", "1", " ", "D">>

RegistryB == RegistryA \o <<"\n", "\t", "0", "0", "a", "2", " ", "E">>

\* what one origin answers: an error or a non-200 status (downloadFile rejects),
\* or status 200 with a body, which may be empty
Responses ==
    {[ok |-> FALSE]} \cup {[ok |-> TRUE, body |-> b] : b \in {<<>>, RegistryA, RegistryB}}

\* downloadFromUrls (and the plugin's loop): the first origin that succeeds wins;
\* null when all fail (the core catches downloadFromUrls' error and sets null)
downloadFromUrls(responses) ==
    IF \E i \in 1..Len(responses) : responses[i].ok
    THEN LET i == CHOOSE k \in 1..Len(responses) :
                      /\ responses[k].ok
                      /\ \A j \in 1..(k - 1) : ~responses[j].ok
         IN  [ok |-> TRUE, text |-> responses[i].body]
    ELSE [ok |-> FALSE]

\* if (usbIdsContent): null and '' are falsy
Truthy(usbIdsContent) == usbIdsContent.ok /\ usbIdsContent.text # <<>>

----------------------------------------------------------------------------
(* Commands.  cli: updateUsbIdsData of src/cli.ts; api: ensureData of      *)
(* src/api.ts; script: main of the fetch script.  The first two run the    *)
(* core's fetchUsbIdsData, the script runs the plugin's.                   *)

Procs == {"p1"}

Commands == {"cli", "api", "script"}

FallbackFileOf(cmd) == IF cmd = "api" THEN USB_IDS_FILE ELSE USB_IDS_JSON_FILE

ShouldUpdateOf(cmd, versionInfo, forceUpdate, now) ==
    IF cmd = "script" THEN shouldUpdatePlugin(versionInfo, forceUpdate, now)
    ELSE shouldUpdate(versionInfo, forceUpdate, now)

CreateVersionInfoOf(cmd, data, rawContent, source, now) ==
    IF cmd = "script" THEN createVersionInfoPlugin(data, rawContent, source, now)
    ELSE createVersionInfo(data, rawContent, source, now)

NoContent == [ok |-> FALSE]

NoReturn == [source |-> "none"]

\* a process that runs no command.  Of a call: pc is where it stands;
\* existingVersion, usbIdsContent are fetchUsbIdsData's locals; gateOpen is what
\* shouldUpdate answered; fallbackAtGate and fallbackAtHash are what
\* existsSync(fallbackPath) answered under the closed gate and under equal hashes
\* (FALSE when not asked); downloads, parseCalls, wroteRaw, wroteVersion count
\* what the call did; outcome and ret are how fetchUsbIdsData ended.
IdleCall ==
    [pc |-> "idle", cmd |-> "none", forceUpdate |-> FALSE,
     existingVersion |-> NoVersion, gateOpen |-> FALSE,
     fallbackAtGate |-> FALSE, fallbackAtHash |-> FALSE,
     usbIdsContent |-> NoContent, downloads |-> 0, parseCalls |-> 0,
     wroteRaw |-> FALSE, wroteVersion |-> FALSE,
     outcome |-> "none", ret |-> NoReturn]

\* return { data, source: 'fallback', versionInfo: existingVersion } after
\* JSON.parse(fs.readFileSync(fallbackPath)), which throws on registry text
ReturnFallback(c, fs) ==
    LET parsed == JSONparse(fs[FallbackFileOf(c.cmd)]) IN
    IF parsed.ok
    THEN [c EXCEPT !.pc = "fetched", !.outcome = "returned",
                   !.ret = [data |-> parsed.value, source |-> "fallback",
                            versionInfo |-> c.existingVersion]]
    ELSE [c EXCEPT !.pc = "fetched", !.outcome = "threw"]

\* FetchStart with the closed gate's return forgotten: the download always starts
FetchStartNoGate(cmd, forceUpdate, fs, now) ==
    LET existingVersion == loadVersionInfo(fs, USB_IDS_VERSION_JSON_FILE)
        open == ShouldUpdateOf(cmd, existingVersion, forceUpdate, now)
    IN  [IdleCall EXCEPT !.cmd = cmd, !.forceUpdate = forceUpdate,
                         !.existingVersion = existingVersion,
                         !.gateOpen = open, !.outcome = "pending",
                         !.fallbackAtGate = ~open /\ existsSync(fs, FallbackFileOf(cmd)),
                         !.pc = "downloading", !.downloads = 1]

\* fetchUsbIdsData up to its first await: the version record is loaded, the gate
\* is asked, a closed gate returns the fallback file's dataset if the file exists;
\* otherwise the download starts
FetchStart(cmd, forceUpdate, fs, now) ==
    LET existingVersion == loadVersionInfo(fs, USB_IDS_VERSION_JSON_FILE)
        open == ShouldUpdateOf(cmd, existingVersion, forceUpdate, now)
        c == [IdleCall EXCEPT !.cmd = cmd, !.forceUpdate = forceUpdate,
                              !.existingVersion = existingVersion,
                              !.gateOpen = open, !.outcome = "pending"]
    IN  IF ~open /\ existsSync(fs, FallbackFileOf(cmd))
        THEN ReturnFallback([c EXCEPT !.fallbackAtGate = TRUE], fs)
        ELSE [c EXCEPT !.pc = "downloading", !.downloads = 1]

\* HashUnchanged with the comparison of the hashes forgotten
HashUnchangedNoCompare(c, usbIdsContent) ==
    /\ c.existingVersion # NoVersion
    /\ ~c.forceUpdate

\* the content-equal test of fetchUsbIdsData: a previous record, no force, equal hashes
HashUnchanged(c, usbIdsContent) ==
    /\ c.existingVersion # NoVersion
    /\ ~c.forceUpdate
    /\ generateContentHash(RawText(usbIdsContent.text)) = c.existingVersion.contentHash

\* the else branch of if (usbIdsContent): the fallback file's dataset under a new
\* version record made from JSON.stringify(data), which saveVersionInfo writes
UseFallback(c, fs, now) ==
    IF ~existsSync(fs, FallbackFileOf(c.cmd))
    THEN [c |-> [c EXCEPT !.pc = "fetched", !.outcome = "threw"], fs |-> fs]
    ELSE LET parsed == JSONparse(fs[FallbackFileOf(c.cmd)]) IN
         IF ~parsed.ok
         THEN [c |-> [c EXCEPT !.pc = "fetched", !.outcome = "threw"], fs |-> fs]
         ELSE LET data == parsed.value
                  rawContent == JsonText(data, 0)
                  versionInfo == CreateVersionInfoOf(c.cmd, data, rawContent, "fallback", now)
              IN  [c |-> [c EXCEPT !.pc = "fetched", !.outcome = "returned",
                                   !.wroteVersion = TRUE,
                                   !.ret = [data |-> data, source |-> "fallback",
                                            versionInfo |-> versionInfo]],
                   fs |-> [fs EXCEPT ![USB_IDS_VERSION_JSON_FILE] = JsonText(versionInfo, 2)]]

\* AfterDownload with the content-equal return forgotten: equal content is published again
AfterDownloadAlwaysPublish(c0, fs, usbIdsContent, now) ==
    LET c == [c0 EXCEPT !.usbIdsContent = usbIdsContent] IN
    IF Truthy(usbIdsContent)
    THEN [c |-> [c EXCEPT !.pc = "rawSaved", !.wroteRaw = TRUE,
                          !.fallbackAtHash = /\ HashUnchanged(c, usbIdsContent)
                                             /\ existsSync(fs, FallbackFileOf(c.cmd))],
          fs |-> [fs EXCEPT ![USB_IDS_FILE] = RawText(usbIdsContent.text)]]
    ELSE UseFallback(c, fs, now)

\* fetchUsbIdsData from the end of the download to its next await: [c, fs] after it
AfterDownload(c0, fs, usbIdsContent, now) ==
    LET c == [c0 EXCEPT !.usbIdsContent = usbIdsContent] IN
    IF Truthy(usbIdsContent)
    THEN IF HashUnchanged(c, usbIdsContent) /\ existsSync(fs, FallbackFileOf(c.cmd))
         THEN [c |-> ReturnFallback([c EXCEPT !.fallbackAtHash = TRUE], fs), fs |-> fs]
         ELSE [c |-> [c EXCEPT !.pc = "rawSaved", !.wroteRaw = TRUE],
               fs |-> [fs EXCEPT ![USB_IDS_FILE] = RawText(usbIdsContent.text)]]
    ELSE UseFallback(c, fs, now)

\* fetchUsbIdsData after saveRawUsbIdsFile: parse, make the version record, write it
AfterRawSaved(c, fs, now) ==
    LET data == parseUsbIds(c.usbIdsContent.text)
        rawContent == RawText(c.usbIdsContent.text)
        versionInfo == CreateVersionInfoOf(c.cmd, data, rawContent, "api", now)
    IN  [c |-> [c EXCEPT !.pc = "fetched", !.outcome = "returned",
                         !.parseCalls = @ + 1, !.wroteVersion = TRUE,
                         !.ret = [data |-> data, source |-> "api",
                                  versionInfo |-> versionInfo]],
         fs |-> [fs EXCEPT ![USB_IDS_VERSION_JSON_FILE] = JsonText(versionInfo, 2)]]

----------------------------------------------------------------------------
(* Actions *)

Free(p) == call[p].pc \in {"idle", "done"}

parserIdle == content = <<>> /\ result = [done |-> FALSE]

\* no refresh has ended Unchanged on equal hashes, or what it stood on has passed
NoStreak == [active |-> FALSE]

\* the download harness, the diff-hash script, the cached API and the web UI do not run
othersIdle ==
    /\ fetcher = [pc |-> "off"]
    /\ diff = [pc |-> "off"]
    /\ cache = [pc |-> "off"]
    /\ ui = [pc |-> "off"]

gateIdle == gate = [pc |-> "off"]

\* no query of the async API is in flight or answered in the running program
queryIdle == query = [pc |-> "off"]

\* the exported async functions, each of which awaits ensureData first
ApiFunctions ==
    {"getVendors", "getVendor", "getDevices", "getDevice", "searchDevices", "getUsbData"}

\* (error as Error).message: the message fetchUsbIdsData threw with, whose text
\* is not Latin and is kept as one part; a message is the sequence of its parts
FetchErrorMessage == <<"fetchUsbIdsData failed: ", "cause">>

\* createApiError(`Failed to fetch USB device data: ${message}`, NETWORK_ERROR, error)
createApiError(message, code) ==
    [name |-> "UsbApiError", message |-> message, code |-> code]

\* ensureData with a failed fetch answered by an empty dataset
ensureDataEmptyOnError(c) ==
    IF c.outcome = "returned"
    THEN [pc |-> "resolved", data |-> c.ret.data]
    ELSE [pc |-> "resolved", data |-> <<>>]

\* ensureData: the data fetchUsbIdsData returned, or the error thrown in its place
ensureData(c) ==
    IF c.outcome = "returned"
    THEN [pc |-> "resolved", data |-> c.ret.data]
    ELSE [pc |-> "rejected",
          error |-> createApiError(<<"Failed to fetch USB device data", ": ">>
                                       \o FetchErrorMessage,
                                   "NETWORK_ERROR")]

\* an earlier query of the running program was answered with a dataset
LoadedBefore(q) == q.pc = "resolved" \/ (q.pc # "off" /\ q.loaded)

\* history: a forced update ends the streak of Unchanged refreshes
StreakAtStart(forceUpdate) == IF forceUpdate THEN NoStreak ELSE streak

\* history: a refresh that ends Unchanged on equal hashes (lines 62-73) starts a
\* streak on that hash; a download that brings content of another hash ends it
StreakAfterDownload(c, usbIdsContent) ==
    IF c.fallbackAtHash /\ c.outcome = "returned"
    THEN [active |-> TRUE, hash |-> c.existingVersion.contentHash]
    ELSE IF /\ streak.active
            /\ usbIdsContent.ok
            /\ generateContentHash(RawText(usbIdsContent.text)) # streak.hash
         THEN NoStreak
         ELSE streak

\* CliUpdate with the early return forgotten: fetchUsbIdsData is always called
CliUpdateAlwaysFetch(p, forceUpdate) ==
    /\ Free(p)
    /\ call' = [call EXCEPT ![p] = FetchStartNoGate("cli", forceUpdate, files, clock)]
    /\ query' = [pc |-> "off"]
    /\ streak' = StreakAtStart(forceUpdate)
    /\ UNCHANGED <<files, clock, content, result, gate, others>>

\* usb-ids update [--force]: returns at once when not forced and the gate is closed
CliUpdate(p, forceUpdate) ==
    /\ Free(p)
    /\ LET currentVersionInfo == loadVersionInfo(files, USB_IDS_VERSION_JSON_FILE) IN
       IF ~forceUpdate /\ ~shouldUpdate(currentVersionInfo, forceUpdate, clock)
       THEN call' = [call EXCEPT ![p] =
                [IdleCall EXCEPT !.pc = "done", !.cmd = "cli",
                                 !.existingVersion = currentVersionInfo]]
       ELSE call' = [call EXCEPT ![p] = FetchStart("cli", forceUpdate, files, clock)]
    /\ query' = [pc |-> "off"]
    /\ streak' = StreakAtStart(forceUpdate)
    /\ UNCHANGED <<files, clock, content, result, gate, others>>

\* a query of the async API: ensureData(forceUpdate)
ApiQuery(p, forceUpdate) ==
    /\ Free(p)
    /\ call' = [call EXCEPT ![p] = FetchStart("api", forceUpdate, files, clock)]
    /\ \E fn \in ApiFunctions :
          query' = [pc |-> "pending", fn |-> fn, loaded |-> LoadedBefore(query)]
    /\ streak' = StreakAtStart(forceUpdate)
    /\ UNCHANGED <<files, clock, content, result, gate, others>>

\* the fetch script, with or without --force
ScriptFetch(p, forceUpdate) ==
    /\ Free(p)
    /\ call' = [call EXCEPT ![p] = FetchStart("script", forceUpdate, files, clock)]
    /\ query' = [pc |-> "off"]
    /\ streak' = StreakAtStart(forceUpdate)
    /\ UNCHANGED <<files, clock, content, result, gate, others>>

\* the download ends, each origin having answered in some way
Download(p) ==
    /\ call[p].pc = "downloading"
    /\ \E responses \in [1..Len(USB_IDS_SOURCE) -> Responses] :
          LET usbIdsContent == downloadFromUrls(responses)
              next == AfterDownload(call[p], files, usbIdsContent, clock)
          IN  /\ call' = [call EXCEPT ![p] = next.c]
              /\ files' = next.fs
              /\ streak' = StreakAfterDownload(next.c, usbIdsContent)
    /\ UNCHANGED <<clock, content, result, gate, query, others>>

Parse(p) ==
    /\ call[p].pc = "rawSaved"
    /\ LET next == AfterRawSaved(call[p], files, clock) IN
       /\ call' = [call EXCEPT ![p] = next.c]
       /\ files' = next.fs
    /\ UNCHANGED <<clock, content, result, gate, query, streak, others>>

\* cli and script: saveUsbIdsToFile(data, usb.ids.json) once fetchUsbIdsData has returned
SaveJson(p) ==
    /\ call[p].pc = "fetched"
    /\ call[p].outcome = "returned"
    /\ call[p].cmd \in {"cli", "script"}
    /\ files' = [files EXCEPT ![USB_IDS_JSON_FILE] = JsonText(call[p].ret.data, 2)]
    /\ call' = [call EXCEPT ![p].pc = IF call[p].cmd = "cli" THEN "jsonSaved" ELSE "done"]
    /\ UNCHANGED <<clock, content, result, gate, query, streak, others>>

\* cli: saveVersionInfo(versionInfo, usb.ids.version.json)
SaveVersion(p) ==
    /\ call[p].pc = "jsonSaved"
    /\ files' = [files EXCEPT ![USB_IDS_VERSION_JSON_FILE] =
                     JsonText(call[p].ret.versionInfo, 2)]
    /\ call' = [call EXCEPT ![p].pc = "done"]
    /\ UNCHANGED <<clock, content, result, gate, query, streak, others>>

\* ensureData returns the data or throws NETWORK_ERROR; cli and script exit on an error
Finish(p) ==
    /\ call[p].pc = "fetched"
    /\ call[p].outcome = "threw" \/ call[p].cmd = "api"
    /\ call' = [call EXCEPT ![p].pc = "done"]
    /\ IF call[p].cmd = "api"
       THEN query' = ensureData(call[p]) @@ [fn |-> query.fn, loaded |-> query.loaded]
       ELSE UNCHANGED query
    /\ UNCHANGED <<files, clock, content, result, gate, streak, others>>

MaxDays == 2

\* the instants the clock is read at: each 24 h boundary and the millisecond before it
Instants ==
    {k * DayInMs : k \in 0..MaxDays} \cup {k * DayInMs - 1 : k \in 1..MaxDays}

Tick ==
    /\ \E t \in Instants : t > clock /\ clock' = t
    /\ UNCHANGED <<files, call, content, result, gate, query, streak, others>>

Init ==
    /\ files = [f \in FileNames |-> NoFile]
    /\ clock = 0
    /\ call = [p \in Procs |-> IdleCall]
    /\ parserIdle
    /\ gateIdle
    /\ queryIdle
    /\ streak = NoStreak
    /\ othersIdle

Next ==
    \/ \E p \in Procs, forceUpdate \in BOOLEAN : CliUpdate(p, forceUpdate)
    \/ \E p \in Procs, forceUpdate \in BOOLEAN : ApiQuery(p, forceUpdate)
    \/ \E p \in Procs, forceUpdate \in BOOLEAN : ScriptFetch(p, forceUpdate)
    \/ \E p \in Procs : Download(p)
    \/ \E p \in Procs : Parse(p)
    \/ \E p \in Procs : SaveJson(p)
    \/ \E p \in Procs : SaveVersion(p)
    \/ \E p \in Procs : Finish(p)
    \/ Tick

Spec == Init /\ [][Next]_vars

----------------------------------------------------------------------------
(* Properties of the refresh.  They read a call's record: what the call was *)
(* given, what it did, how it ended.                                        *)

\* fetchUsbIdsData was called by the process's command
Called(c) == c.outcome # "none"

\* fetchUsbIdsData has returned or thrown
Ended(c) == c.outcome \in {"returned", "threw"}

\* the call returned the previous version record
ReturnedPrevious(c) ==
    /\ c.outcome = "returned"
    /\ c.ret.versionInfo = c.existingVersion

\* the call returned the dataset of its fallback file, or threw because that file is no JSON
ReturnedFallbackData(c) ==
    LET parsed == JSONparse(files[FallbackFileOf(c.cmd)]) IN
    IF parsed.ok THEN ReturnedPrevious(c) /\ c.ret.data = parsed.value
    ELSE c.outcome = "threw"

DownloadedHash(c) == generateContentHash(RawText(c.usbIdsContent.text))

\* a previous record, no force, the gate open, a download whose hash is the record's
HashEqualCase(c) ==
    /\ Called(c)
    /\ c.existingVersion # NoVersion
    /\ ~c.forceUpdate
    /\ c.gateOpen
    /\ c.usbIdsContent.ok
    /\ DownloadedHash(c) = c.existingVersion.contentHash

GateClosedCase(c) == Called(c) /\ ~c.gateOpen

AllOriginsFailed(c) ==
    /\ Called(c)
    /\ c.downloads > 0
    /\ c.pc # "downloading"
    /\ ~c.usbIdsContent.ok

\* C3: when every origin fails and a snapshot (usb.ids.json) with its version
\* record exists, the version record stays as it was and the call returns the
\* existing snapshot under it.
C3_NoOpWhenOriginsFail ==
    \A p \in Procs :
        (/\ AllOriginsFailed(call[p])
         /\ call[p].existingVersion # NoVersion
         /\ existsSync(files, USB_IDS_JSON_FILE)) =>
            /\ ~call[p].wroteVersion
            /\ files[USB_IDS_VERSION_JSON_FILE] = JsonText(call[p].existingVersion, 2)
            /\ Ended(call[p]) => ReturnedPrevious(call[p])

\* version record versionInfo describes dataset data: it was made from the text
\* that parses to data, or from data's JSON
Describes(versionInfo, data) ==
    /\ versionInfo.vendorCount = Len(ObjKeys(data))
    /\ versionInfo.deviceCount = CountDevices(data)
    /\ \/ /\ versionInfo.source = "api"
          /\ \E r \in Responses :
                /\ r.ok
                /\ versionInfo.contentHash = generateContentHash(RawText(r.body))
                /\ data = parseUsbIds(r.body)
       \/ /\ versionInfo.source = "fallback"
          /\ versionInfo.contentHash = generateContentHash(JsonText(data, 0))

\* C4: whenever a reader loads usb.ids.json and usb.ids.version.json, the
\* version record it gets describes the dataset it gets.
C4_ReaderSeesMatchingPair ==
    (existsSync(files, USB_IDS_JSON_FILE) /\ existsSync(files, USB_IDS_VERSION_JSON_FILE)) =>
        Describes(JSONparse(files[USB_IDS_VERSION_JSON_FILE]).value,
                  JSONparse(files[USB_IDS_JSON_FILE]).value)

\* a previous record, the gate open or the update forced, a download whose hash
\* is not the record's
ChangedCase(c) ==
    /\ Called(c)
    /\ c.existingVersion # NoVersion
    /\ c.gateOpen
    /\ c.usbIdsContent.ok
    /\ DownloadedHash(c) # c.existingVersion.contentHash

\* the call ended Updated: the parse of the download, under a new version record
\* from the api with the download's hash, which is the persisted one
EndedUpdated(c) ==
    /\ c.outcome = "returned"
    /\ c.ret.data = parseUsbIds(c.usbIdsContent.text)
    /\ c.ret.source = "api"
    /\ c.ret.versionInfo.source = "api"
    /\ c.ret.versionInfo.contentHash = DownloadedHash(c)
    /\ c.ret.versionInfo # c.existingVersion
    /\ files[USB_IDS_VERSION_JSON_FILE] = JsonText(c.ret.versionInfo, 2)

\* C5 as claimed: a successful download of changed content always ends Updated.
C5_ChangeNeverMissed ==
    \A p \in Procs :
        (ChangedCase(call[p]) /\ Ended(call[p])) => EndedUpdated(call[p])

\* C5 amended: a successful download of changed, non-empty content always ends
\* Updated.
C5_NonEmptyChangeNeverMissed ==
    \A p \in Procs :
        (/\ ChangedCase(call[p])
         /\ call[p].usbIdsContent.text # <<>>
         /\ Ended(call[p])) => EndedUpdated(call[p])

C5_Witness ==
    \E p \in Procs :
        /\ ChangedCase(call[p])
        /\ ~call[p].forceUpdate
        /\ call[p].usbIdsContent.text # <<>>
        /\ call[p].pc = "fetched"
        /\ EndedUpdated(call[p])

\* C7: the persisted version record's contentHash is the hash of registry text
\* as received, never of a serialisation of the parsed structure.
C7_HashOfRawBytes ==
    existsSync(files, USB_IDS_VERSION_JSON_FILE) =>
        JSONparse(files[USB_IDS_VERSION_JSON_FILE]).value.contentHash.sha256.kind = "raw"

\* C8: a version record's label is "1.0." followed by its fetchTime in decimal.
C8_VersionLabel ==
    existsSync(files, USB_IDS_VERSION_JSON_FILE) =>
        LET versionInfo == JSONparse(files[USB_IDS_VERSION_JSON_FILE]).value IN
        versionInfo.version = <<"1", ".", "0", ".">> \o ToDecimal(versionInfo.fetchTime)

\* C9: the version record fetchUsbIdsData returns counts the vendors and the
\* devices of the dataset it returns with it.
C9_CountsMatchData ==
    \A p \in Procs :
        call[p].outcome = "returned" =>
            /\ call[p].ret.versionInfo.vendorCount = Len(ObjKeys(call[p].ret.data))
            /\ call[p].ret.versionInfo.deviceCount = CountDevices(call[p].ret.data)

----------------------------------------------------------------------------
(* The parser harness: parseUsbIds applied to registry texts of up to       *)
(* MaxLines lines.                                                          *)

MaxLines == 3

SampleLines ==
    {<<"1", "2", "3", "4", " ", "A">>,               \* a vendor header, its id an integer-like key
     <<"0", "5", "A", "C", " ", "B">>,               \* a vendor header, its id in upper case
     <<"0", "5", "a", "c", " ", "C">>,               \* the same vendor id in lower case, another name
     <<"\t", "0", "0", "a", "1", " ", "D">>,         \* a device line
     <<"\t", "0", "0", "A", "1", " ", "E">>,         \* the same device id in upper case, another name
     <<"\t", "\t", "0", "0", "a", "1", " ", "X">>,   \* two tabs: an interface line
     <<"#", " ", "c">>,                              \* a comment
     <<" ">>,                                        \* white space only
     <<"z", "z">>,                                   \* a malformed header
     <<"\t", "z", "z">>,                             \* a malformed device line
     <<"0", "5", "a", "c", " ", "C", "\r">>          \* a header with a carriage return left by a CRLF ending
    }

\* "not a valid line\n1234 Good Vendor\n\tbadline\n\t00a1 Good Device\n"
ExampleInput ==
    join(<<<<"n", "o", "t", " ", "a", " ", "v", "a", "l", "i", "d", " ", "l", "i", "n", "e">>,
           <<"1", "2", "3", "4", " ", "G", "o", "o", "d", " ", "V", "e", "n", "d", "o", "r">>,
           <<"\t", "b", "a", "d", "l", "i", "n", "e">>,
           <<"\t", "0", "0", "a", "1", " ", "G", "o", "o", "d", " ", "D", "e", "v", "i", "c", "e">>,
           <<>>
         >>, "\n")

ParseInputs ==
    {ExampleInput}
        \cup {join(lines, "\n") : lines \in UNION {[1..n -> SampleLines] : n \in 0..MaxLines}}

InitParse ==
    /\ content \in ParseInputs
    /\ result = [done |-> FALSE]
    /\ files = [f \in FileNames |-> NoFile]
    /\ clock = 0
    /\ call = [p \in Procs |-> IdleCall]
    /\ gateIdle
    /\ queryIdle
    /\ streak = NoStreak
    /\ othersIdle

RunParse ==
    /\ ~result.done
    /\ LET outcome == ParseOutcome(content) IN
       result' = [done |-> TRUE, threw |-> outcome.threw, data |-> outcome.result]
    /\ UNCHANGED <<files, clock, call, content, gate, query, streak, others>>

NextParse == RunParse

SpecParse == InitParse /\ [][NextParse]_vars

\* a well-formed vendor header: not a comment, not blank, no leading tab, and
\* 4 hex digits, one white space, a name
WellFormedVendorHeader(line) ==
    /\ line # <<>>
    /\ line[1] \notin {"#", "\t"}
    /\ VendorMatch(line).ok

\* a well-formed device line: exactly one leading tab, then 4 hex digits, one
\* white space, a name
WellFormedDeviceLine(line) ==
    /\ Len(line) >= 2
    /\ line[1] = "\t"
    /\ line[2] # "\t"
    /\ DeviceMatch(line).ok

\* the lines that count: the well-formed headers, and the well-formed device
\* lines below some well-formed header
CountingLines(lines) ==
    LET counts(i) ==
            \/ WellFormedVendorHeader(lines[i])
            \/ /\ WellFormedDeviceLine(lines[i])
               /\ \E j \in 1..(i - 1) : WellFormedVendorHeader(lines[j])
        RECURSIVE Keep(_)
        Keep(i) ==
            IF i = 0 THEN <<>>
            ELSE IF counts(i) THEN Append(Keep(i - 1), lines[i])
            ELSE Keep(i - 1)
    IN  Keep(Len(lines))

ExampleDataset ==
    <<[key |-> <<"1", "2", "3", "4">>,
       val |-> [vendor |-> <<"1", "2", "3", "4">>,
                name |-> <<"G", "o", "o", "d", " ", "V", "e", "n", "d", "o", "r">>,
                devices |->
                    <<[key |-> <<"0", "0", "a", "1">>,
                       val |-> [devid |-> <<"0", "0", "a", "1">>,
                                devname |-> <<"G", "o", "o", "d", " ", "D", "e", "v", "i", "c", "e">>]]>>]]>>

\* C10: parseUsbIds never raises, and the lines that are neither a well-formed
\* vendor header nor a well-formed device line under an active vendor contribute
\* nothing: the result is the parse of the input without them.  The example
\* input yields vendor 1234 'Good Vendor' with device 00a1 'Good Device' only.
C10_IgnoredLinesContributeNothing ==
    result.done =>
        /\ ~result.threw
        /\ result.data = parseUsbIds(join(CountingLines(split(content, "\n")), "\n"))
        /\ content = ExampleInput => result.data = ExampleDataset

\* an input whose ignored line stands between a header and its device
C10_Witness ==
    /\ result.done
    /\ Len(CountingLines(split(content, "\n"))) < Len(split(content, "\n"))
    /\ result.data # <<>>
    /\ \E i \in 1..Len(result.data) : result.data[i].val.devices # <<>>

----------------------------------------------------------------------------
(* The update-gate harness: both shouldUpdate implementations asked about   *)
(* the same record, flag and instant.                                       *)

MaxFetchTime == 5

GateOffsets == {-1, 0, 1, DayInMs - 1, DayInMs, DayInMs + 1, 2 * DayInMs}

GateRecords ==
    {NoVersion} \cup
        {createVersionInfo(<<>>, RawText(<<>>), "api", t) : t \in 0..MaxFetchTime}

InitGate ==
    /\ \E versionInfo \in GateRecords, forceUpdate \in BOOLEAN, d \in GateOffsets :
          LET now == (IF versionInfo = NoVersion THEN 0 ELSE versionInfo.fetchTime) + d IN
          /\ now >= 0
          /\ gate = [pc |-> "ask", versionInfo |-> versionInfo,
                     forceUpdate |-> forceUpdate, now |-> now]
    /\ files = [f \in FileNames |-> NoFile]
    /\ clock = 0
    /\ call = [p \in Procs |-> IdleCall]
    /\ parserIdle
    /\ queryIdle
    /\ streak = NoStreak
    /\ othersIdle

AskGate ==
    /\ gate.pc = "ask"
    /\ gate' = [pc |-> "answered", versionInfo |-> gate.versionInfo,
                forceUpdate |-> gate.forceUpdate, now |-> gate.now,
                core |-> shouldUpdate(gate.versionInfo, gate.forceUpdate, gate.now),
                plugin |-> shouldUpdatePlugin(gate.versionInfo, gate.forceUpdate, gate.now)]
    /\ UNCHANGED <<files, clock, call, content, result, query, streak, others>>

NextGate == AskGate

SpecGate == InitGate /\ [][NextGate]_vars

\* the rules in their order: forced, no previous record, 24 h in milliseconds
GateRule(versionInfo, forceUpdate, now) ==
    IF forceUpdate THEN TRUE
    ELSE IF versionInfo = NoVersion THEN TRUE
    ELSE now - versionInfo.fetchTime >= 86400000

----------------------------------------------------------------------------
(* Properties of the async API's answers *)

\* the query of process p has been answered
Answered(p) == call[p].cmd = "api" /\ call[p].pc = "done"

\* C19: when fetchUsbIdsData fails, the query, whichever function asked it, is
\* rejected with an error whose message begins 'Failed to fetch USB device data'
\* and whose code is NETWORK_ERROR; it is never resolved.
C19_RejectsWhenNoData ==
    \A p \in Procs :
        (Answered(p) /\ call[p].outcome = "threw") =>
            /\ query.pc = "rejected"
            /\ Head(query.error.message) = "Failed to fetch USB device data"
            /\ query.error.code = "NETWORK_ERROR"

C19_Witness ==
    \E p \in Procs :
        /\ Answered(p)
        /\ call[p].outcome = "threw"
        /\ call[p].downloads > 0
        /\ query.fn = "searchDevices"
        /\ query.pc = "rejected"

\* C20: once a query has been answered with a dataset, a later query that gets
\* no download (none attempted under the closed gate, or every origin failing)
\* is answered with a dataset too, under the closed gate and after it opened.
C20_KeepsServing ==
    \A p \in Procs :
        (Answered(p) /\ query.loaded /\ ~call[p].usbIdsContent.ok) =>
            query.pc = "resolved"

----------------------------------------------------------------------------
(* Repeated ids in the registry text *)

\* the lower-cased id of a well-formed vendor header
HeaderId(line) == toLowerCase(VendorMatch(line).id)

\* the last well-formed header of vendor id v among lines
LastHeader(lines, v) ==
    CHOOSE i \in 1..Len(lines) :
        /\ WellFormedVendorHeader(lines[i]) /\ HeaderId(lines[i]) = v
        /\ \A j \in (i + 1)..Len(lines) :
              ~(WellFormedVendorHeader(lines[j]) /\ HeaderId(lines[j]) = v)

\* the well-formed device lines listed after header i, up to the next well-formed header
ListedAfter(lines, i) ==
    {k \in (i + 1)..Len(lines) :
        /\ WellFormedDeviceLine(lines[k])
        /\ \A j \in (i + 1)..(k - 1) : ~WellFormedVendorHeader(lines[j])}

\* C11: each vendor id with a well-formed header (ids compared ignoring case)
\* has exactly one vendor in the result; its name is the last such header's, and
\* its devices are exactly those listed after that last header, each id once,
\* under the name of the id's last line there.
C11_LastWriteWins ==
    result.done =>
        LET lines == split(content, "\n")
            data == result.data
            ids == {HeaderId(lines[i]) : i \in {k \in 1..Len(lines) : WellFormedVendorHeader(lines[k])}}
        IN  /\ {data[n].key : n \in 1..Len(data)} = ids
            /\ Len(data) = Cardinality(ids)
            /\ \A n \in 1..Len(data) :
                  LET v == data[n].key
                      last == LastHeader(lines, v)
                      listed == ListedAfter(lines, last)
                      devices == data[n].val.devices
                      devIds == {toLowerCase(DeviceMatch(lines[k]).id) : k \in listed}
                  IN  /\ data[n].val.vendor = v
                      /\ data[n].val.name = trim(VendorMatch(lines[last]).name)
                      /\ {devices[m].key : m \in 1..Len(devices)} = devIds
                      /\ Len(devices) = Cardinality(devIds)
                      /\ \A m \in 1..Len(devices) :
                            LET lastLine ==
                                    CHOOSE k \in listed :
                                        /\ toLowerCase(DeviceMatch(lines[k]).id) = devices[m].key
                                        /\ \A k2 \in listed :
                                              toLowerCase(DeviceMatch(lines[k2]).id) = devices[m].key
                                                  => k2 <= k
                            IN  /\ devices[m].val.devid = devices[m].key
                                /\ devices[m].val.devname = trim(DeviceMatch(lines[lastLine]).name)

\* a vendor declared twice with a device under the first declaration only
C11_Witness ==
    /\ result.done
    /\ LET lines == split(content, "\n") IN
       /\ Len(lines) = 3
       /\ WellFormedVendorHeader(lines[1])
       /\ WellFormedDeviceLine(lines[2])
       /\ WellFormedVendorHeader(lines[3])
       /\ HeaderId(lines[1]) = HeaderId(lines[3])
       /\ lines[1] # lines[3]
    /\ Len(result.data) = 1
    /\ result.data[1].val.devices = <<>>

----------------------------------------------------------------------------
(* The query functions of api.ts, over a dataset and their arguments.  A     *)
(* filter is one of: undefined, a string, a function, an object of optional  *)
(* fields.                                                                   *)

\* s.includes(sub)
includes(s, sub) ==
    \E i \in 1..(Len(s) - Len(sub) + 1) : SubSeq(s, i, i + Len(sub) - 1) = sub

Null == [kind |-> "null"]

Undefined == [kind |-> "undefined"]

\* filter?: the argument left out
NoFilter == Undefined

StringFilter(value) == [kind |-> "string", value |-> value]

\* a function filter: v => v.vendor === id (as getDevices passes), or one
\* comparing the name
FunctionFilter(field, value) == [kind |-> "function", field |-> field, value |-> value]

Absent == [present |-> FALSE]

Present(value) == [present |-> TRUE, value |-> value]

ObjectFilter(id, name, search) ==
    [kind |-> "object", id |-> id, name |-> name, search |-> search]

\* !filter: undefined and '' are falsy
FalsyFilter(filter) ==
    \/ filter.kind = "undefined"
    \/ filter.kind = "string" /\ filter.value = <<>>

\* filter.id && ...: a field left out and '' are falsy
TruthyField(field) == field.present /\ field.value # <<>>

\* filter(entry) for a function filter, on an entry's id and name
CallFilter(filter, id, name) ==
    IF filter.field = "id" THEN id = filter.value ELSE name = filter.value

\* FilterAccepts with an object filter's search deciding alone when it is given
FilterAcceptsSearchAlone(filter, id, name) ==
    IF filter.kind = "string"
    THEN LET searchTerm == toLowerCase(filter.value) IN
         includes(toLowerCase(id), searchTerm) \/ includes(toLowerCase(name), searchTerm)
    ELSE IF filter.kind = "function"
    THEN CallFilter(filter, id, name)
    ELSE IF TruthyField(filter.search)
    THEN LET searchTerm == toLowerCase(filter.search.value) IN
         includes(toLowerCase(id), searchTerm) \/ includes(toLowerCase(name), searchTerm)
    ELSE /\ TruthyField(filter.id) => includes(toLowerCase(id), toLowerCase(filter.id.value))
         /\ TruthyField(filter.name) => includes(toLowerCase(name), toLowerCase(filter.name.value))

\* the callback of the string filter and of the object filter, on an entry's id and name
FilterAccepts(filter, id, name) ==
    IF filter.kind = "string"
    THEN LET searchTerm == toLowerCase(filter.value) IN
         includes(toLowerCase(id), searchTerm) \/ includes(toLowerCase(name), searchTerm)
    ELSE IF filter.kind = "function"
    THEN CallFilter(filter, id, name)
    ELSE IF TruthyField(filter.id)
            /\ ~includes(toLowerCase(id), toLowerCase(filter.id.value))
    THEN FALSE
    ELSE IF TruthyField(filter.name)
            /\ ~includes(toLowerCase(name), toLowerCase(filter.name.value))
    THEN FALSE
    ELSE IF TruthyField(filter.search)
    THEN LET searchTerm == toLowerCase(filter.search.value) IN
         includes(toLowerCase(id), searchTerm) \/ includes(toLowerCase(name), searchTerm)
    ELSE TRUE

\* filterVendors comparing a string filter with the case kept
filterVendorsCaseSensitive(data, filter) ==
    LET vendors == ObjValues(data) IN
    IF FalsyFilter(filter) THEN vendors
    ELSE IF filter.kind = "string"
    THEN SelectSeq(vendors, LAMBDA vendor :
                      includes(vendor.vendor, filter.value) \/ includes(vendor.name, filter.value))
    ELSE SelectSeq(vendors, LAMBDA vendor : FilterAccepts(filter, vendor.vendor, vendor.name))

filterVendors(data, filter) ==
    LET vendors == ObjValues(data) IN
    IF FalsyFilter(filter) THEN vendors
    ELSE SelectSeq(vendors, LAMBDA vendor : FilterAccepts(filter, vendor.vendor, vendor.name))

filterDevices(vendor, filter) ==
    LET devices == ObjValues(vendor.devices) IN
    IF FalsyFilter(filter) THEN devices
    ELSE SelectSeq(devices, LAMBDA device : FilterAccepts(filter, device.devid, device.devname))

\* Object.values(data).forEach(vendor => Object.values(vendor.devices).forEach(...)):
\* the (vendor, device) pairs in the order they are visited
RECURSIVE VisitOrder(_)
VisitOrder(vendors) ==
    IF vendors = <<>> THEN <<>>
    ELSE LET vendor == Head(vendors)
             devices == ObjValues(vendor.devices)
         IN  [i \in 1..Len(devices) |-> [vendor |-> vendor, device |-> devices[i]]]
                 \o VisitOrder(Tail(vendors))

\* Priority with the weights of the device id and of the vendor exchanged
PriorityVendorFirst(pair, searchTerm) ==
    LET vendor == pair.vendor
        device == pair.device
        vendorMatch == \/ includes(toLowerCase(vendor.name), searchTerm)
                       \/ includes(toLowerCase(vendor.vendor), searchTerm)
        deviceIdMatch == includes(toLowerCase(device.devid), searchTerm)
        deviceNameMatch == includes(toLowerCase(device.devname), searchTerm)
    IN  IF deviceIdMatch \/ deviceNameMatch \/ vendorMatch
        THEN (IF deviceIdMatch THEN 10 ELSE 0)
             + (IF includes(toLowerCase(device.devname), searchTerm) THEN 30 ELSE 0)
             + (IF vendorMatch THEN 100 ELSE 0)
        ELSE 0

\* Priority with the vendor's name and id left out of the match
PriorityDeviceOnly(pair, searchTerm) ==
    LET device == pair.device
        deviceIdMatch == includes(toLowerCase(device.devid), searchTerm)
        deviceNameMatch == includes(toLowerCase(device.devname), searchTerm)
    IN  IF deviceIdMatch \/ deviceNameMatch
        THEN (IF toLowerCase(device.devid) = searchTerm THEN 100
              ELSE IF deviceIdMatch THEN 50 ELSE 0)
             + (IF includes(toLowerCase(device.devname), searchTerm) THEN 30 ELSE 0)
        ELSE 0

\* the relevance score searchInData gives a visited pair, 0 for a pair it skips
Priority(pair, searchTerm) ==
    LET vendor == pair.vendor
        device == pair.device
        vendorMatch == \/ includes(toLowerCase(vendor.name), searchTerm)
                       \/ includes(toLowerCase(vendor.vendor), searchTerm)
        deviceIdMatch == includes(toLowerCase(device.devid), searchTerm)
        deviceNameMatch == includes(toLowerCase(device.devname), searchTerm)
    IN  IF deviceIdMatch \/ deviceNameMatch \/ vendorMatch
        THEN (IF toLowerCase(device.devid) = searchTerm THEN 100
              ELSE IF deviceIdMatch THEN 50 ELSE 0)
             + (IF includes(toLowerCase(device.devname), searchTerm) THEN 30 ELSE 0)
             + (IF vendorMatch THEN 10 ELSE 0)
        ELSE 0

\* results.sort((a, b) => b.priority - a.priority): a stable sort, highest first
RECURSIVE SortByPriority(_)
SortByPriority(results) ==
    IF results = <<>> THEN <<>>
    ELSE LET sorted == SortByPriority(SubSeq(results, 1, Len(results) - 1))
             last == results[Len(results)]
             n == Cardinality({i \in 1..Len(sorted) : sorted[i].priority >= last.priority})
         IN  SubSeq(sorted, 1, n) \o <<last>> \o SubSeq(sorted, n + 1, Len(sorted))

\* searchInData with the results taken in the order they were pushed
searchInDataUnsorted(data, searchQuery) ==
    IF trim(searchQuery) = <<>> THEN <<>>
    ELSE LET searchTerm == trim(toLowerCase(searchQuery))
             visited == VisitOrder(ObjValues(data))
             results == SelectSeq(visited, LAMBDA pair : Priority(pair, searchTerm) > 0)
         IN  results

\* searchInData without the early return on a blank query
searchInDataNoBlankCheck(data, searchQuery) ==
    LET searchTerm == trim(toLowerCase(searchQuery))
        visited == VisitOrder(ObjValues(data))
    IN  [i \in 1..Len(visited) |-> [vendor |-> visited[i].vendor, device |-> visited[i].device]]

searchInData(data, searchQuery) ==
    IF trim(searchQuery) = <<>> THEN <<>>
    ELSE LET searchTerm == trim(toLowerCase(searchQuery))
             visited == VisitOrder(ObjValues(data))
             pushed == SelectSeq(visited, LAMBDA pair : Priority(pair, searchTerm) > 0)
             results == [i \in 1..Len(pushed) |->
                            [vendor |-> pushed[i].vendor, device |-> pushed[i].device,
                             priority |-> Priority(pushed[i], searchTerm)]]
             sorted == SortByPriority(results)
         IN  [i \in 1..Len(sorted) |-> [vendor |-> sorted[i].vendor, device |-> sorted[i].device]]

getVendors(data, filter) == filterVendors(data, filter)

getVendor(data, filter) ==
    LET vendors == getVendors(data, filter) IN
    IF Len(vendors) > 0 THEN vendors[1] ELSE Null

getDevices(data, vendorId, filter) ==
    LET vendor == getVendor(data, FunctionFilter("id", vendorId)) IN
    IF vendor = Null THEN <<>> ELSE filterDevices(vendor, filter)

\* the properties every object inherits from Object.prototype (of the keys used)
ObjectPrototypeKeys == {<<"c", "o", "n", "s", "t", "r", "u", "c", "t", "o", "r">>,
                        <<"t", "o", "S", "t", "r", "i", "n", "g">>,
                        <<"_", "_", "p", "r", "o", "t", "o", "_", "_">>}

\* obj[key]: the own property, else the inherited one, else undefined
PropertyGet(obj, key) ==
    IF HasKey(obj, key) THEN ObjGet(obj, key)
    ELSE IF key \in ObjectPrototypeKeys THEN [kind |-> "inherited", key |-> key]
    ELSE Undefined

getDevice(data, vendorId, deviceId) ==
    LET vendor == getVendor(data, FunctionFilter("id", vendorId)) IN
    IF vendor = Null \/ PropertyGet(vendor.devices, deviceId) = Undefined THEN Null
    ELSE PropertyGet(vendor.devices, deviceId)

----------------------------------------------------------------------------
(* The query harness: each function of api.ts applied to a loaded dataset.  *)

MaxDevices == 2

\* the devices a vendor may hold
DevicePool ==
    {[devid |-> <<"0", "0", "a", "1">>, devname |-> <<"A", "b", " ", "f", "e", "e">>],
     [devid |-> <<"0", "0", "a", "2">>, devname |-> <<"e">>],
     [devid |-> <<"a", "b", "c", "d">>, devname |-> <<"d", " ", "0", "0", "A", "1">>]}

\* a vendor's devices: up to MaxDevices of the pool, in the order they were inserted
DeviceMaps ==
    UNION {{[i \in 1..n |-> [key |-> f[i].devid, val |-> f[i]]] :
                f \in {g \in [1..n -> DevicePool] :
                          \A a, b \in 1..n : a # b => g[a] # g[b]}} :
           n \in 0..MaxDevices}

VendorIdPool == <<<<"1", "2", "3", "4">>, <<"a", "b", "c", "d">>>>

VendorNamePool == {<<"A", "b">>, <<"A", "B", "C", "D", " ", "f", "a", "b">>}

\* the vendors of id VendorIdPool[k], and no vendor
VendorChoices(k) ==
    {<<>>} \cup
        {<<[key |-> VendorIdPool[k],
            val |-> [vendor |-> VendorIdPool[k], name |-> name, devices |-> devices]]>> :
            name \in VendorNamePool, devices \in DeviceMaps}

\* the datasets, their vendors in the order of Object.keys
Datasets == {a \o b : a \in VendorChoices(1), b \in VendorChoices(2)}

QueryStrings ==
    {<<>>, <<" ">>, <<"a", "b">>, <<"A", "b">>, <<"a", "b", "c", "d">>, <<"1", "2", "3", "4">>, <<"0", "0", "a", "1">>, <<" ", "0", "0", "A", "1", " ">>, <<"A", "B", "C", "D", " ", "f", "a", "b">>, <<"z", "z">>}

IdStrings == {<<"1", "2", "3", "4">>, <<"a", "b", "c", "d">>, <<"A", "B", "C", "D">>, <<"0", "0", "a", "1">>, <<"0", "0", "a", "2">>, <<"z", "z">>, <<"c", "o", "n", "s", "t", "r", "u", "c", "t", "o", "r">>}

FilterStrings == {<<>>, <<"a", "b">>, <<"a", "b", "c", "d">>, <<"1", "2", "3", "4">>, <<"0", "0", "A">>}

FieldValues == {Absent, Present(<<"a", "b">>), Present(<<"0", "0", "A">>)}

Filters ==
    {NoFilter}
        \cup {StringFilter(value) : value \in FilterStrings}
        \cup {FunctionFilter("id", <<"a", "b", "c", "d">>), FunctionFilter("id", <<"1", "2", "3", "4">>),
              FunctionFilter("name", <<"A", "b">>)}
        \cup {ObjectFilter(id, name, search) :
                 id \in FieldValues, name \in FieldValues, search \in FieldValues}
        \cup {ObjectFilter(Present(<<>>), Present(<<>>), Present(<<>>))}

\* the filters getDevices is called with
DeviceFilters == {NoFilter, StringFilter(<<"a", "b">>), ObjectFilter(Absent, Present(<<"0", "0", "A">>), Absent)}

InitQuery ==
    /\ \E data \in Datasets : query = [pc |-> "loaded", data |-> data]
    /\ files = [f \in FileNames |-> NoFile]
    /\ clock = 0
    /\ call = [p \in Procs |-> IdleCall]
    /\ parserIdle
    /\ gateIdle
    /\ streak = NoStreak
    /\ othersIdle

\* the harness once function fn, called with args on the loaded dataset, has answered
Reply(fn, args, answer) ==
    [pc |-> "answered", data |-> query.data, fn |-> fn, args |-> args, answer |-> answer]

SearchInData ==
    /\ query.pc = "loaded"
    /\ \E searchQuery \in QueryStrings :
          query' = Reply("searchInData", [searchQuery |-> searchQuery],
                         searchInData(query.data, searchQuery))
    /\ UNCHANGED <<files, clock, call, content, result, gate, streak, others>>

FilterVendors ==
    /\ query.pc = "loaded"
    /\ \E filter \in Filters :
          query' = Reply("filterVendors", [filter |-> filter],
                         filterVendors(query.data, filter))
    /\ UNCHANGED <<files, clock, call, content, result, gate, streak, others>>

FilterDevices ==
    /\ query.pc = "loaded"
    /\ \E n \in 1..Len(query.data), filter \in Filters :
          query' = Reply("filterDevices", [vendor |-> query.data[n].val, filter |-> filter],
                         filterDevices(query.data[n].val, filter))
    /\ UNCHANGED <<files, clock, call, content, result, gate, streak, others>>

GetVendor ==
    /\ query.pc = "loaded"
    /\ \E filter \in Filters :
          query' = Reply("getVendor", [filter |-> filter], getVendor(query.data, filter))
    /\ UNCHANGED <<files, clock, call, content, result, gate, streak, others>>

GetDevices ==
    /\ query.pc = "loaded"
    /\ \E vendorId \in IdStrings, filter \in DeviceFilters :
          query' = Reply("getDevices", [vendorId |-> vendorId, filter |-> filter],
                         getDevices(query.data, vendorId, filter))
    /\ UNCHANGED <<files, clock, call, content, result, gate, streak, others>>

GetDevice ==
    /\ query.pc = "loaded"
    /\ \E vendorId \in IdStrings, deviceId \in IdStrings :
          query' = Reply("getDevice", [vendorId |-> vendorId, deviceId |-> deviceId],
                         getDevice(query.data, vendorId, deviceId))
    /\ UNCHANGED <<files, clock, call, content, result, gate, streak, others>>

NextQuery ==
    \/ SearchInData
    \/ FilterVendors
    \/ FilterDevices
    \/ GetVendor
    \/ GetDevices
    \/ GetDevice

SpecQuery == InitQuery /\ [][NextQuery]_vars

----------------------------------------------------------------------------
(* Properties of the query functions *)

Asked(fn) == query.pc = "answered" /\ query.fn = fn

\* the (vendor, device) pairs of a dataset
PairsOf(data) ==
    UNION {{[vendor |-> data[n].val, device |-> data[n].val.devices[m].val] :
                m \in 1..Len(data[n].val.devices)} :
           n \in 1..Len(data)}

\* s contains sub, case ignored
ContainsIgnoringCase(s, sub) == includes(toLowerCase(s), toLowerCase(sub))

\* the score of a pair for a trimmed query: 100 for a device id equal to it, else
\* 50 for one containing it; 30 more for a device name containing it; 10 more
\* for a vendor name or id containing it
Score(pair, term) ==
    (IF toLowerCase(pair.device.devid) = toLowerCase(term) THEN 100
     ELSE IF ContainsIgnoringCase(pair.device.devid, term) THEN 50 ELSE 0)
    + (IF ContainsIgnoringCase(pair.device.devname, term) THEN 30 ELSE 0)
    + (IF \/ ContainsIgnoringCase(pair.vendor.name, term)
          \/ ContainsIgnoringCase(pair.vendor.vendor, term) THEN 10 ELSE 0)

\* C12: for a query that is not blank, searchInData returns exactly the pairs of
\* positive score, each once, in an order of non-increasing score.
C12_SearchScoresAndOrder ==
    (Asked("searchInData") /\ trim(query.args.searchQuery) # <<>>) =>
        LET term == trim(query.args.searchQuery)
            answer == query.answer
            positive == {pair \in PairsOf(query.data) : Score(pair, term) > 0}
        IN  /\ {answer[i] : i \in 1..Len(answer)} = positive
            /\ Len(answer) = Cardinality(positive)
            /\ \A i, j \in 1..Len(answer) :
                  i < j => Score(answer[i], term) >= Score(answer[j], term)

\* three pairs of three different scores, the last visited ranked first
C12_Witness ==
    /\ Asked("searchInData")
    /\ query.args.searchQuery = <<" ", "0", "0", "A", "1", " ">>
    /\ Len(query.answer) >= 2
    /\ Score(query.answer[1], <<"0", "0", "A", "1">>) = 100
    /\ Score(query.answer[Len(query.answer)], <<"0", "0", "A", "1">>) = 30
    /\ query.answer[1].vendor.vendor = <<"a", "b", "c", "d">>
    /\ query.answer[Len(query.answer)].vendor.vendor = <<"1", "2", "3", "4">>

\* C13: a blank query finds nothing, whereas a filter left out keeps every
\* vendor (filterVendors) and every device of the vendor (filterDevices,
\* getDevices).
C13_BlankQueryVersusNoFilter ==
    /\ (Asked("searchInData") /\ trim(query.args.searchQuery) = <<>>) => query.answer = <<>>
    /\ (Asked("filterVendors") /\ query.args.filter = NoFilter) =>
          query.answer = ObjValues(query.data)
    /\ (Asked("filterDevices") /\ query.args.filter = NoFilter) =>
          query.answer = ObjValues(query.args.vendor.devices)
    /\ (Asked("getDevices") /\ query.args.filter = NoFilter
            /\ HasKey(query.data, query.args.vendorId)) =>
          query.answer = ObjValues(ObjGet(query.data, query.args.vendorId).devices)

C13_Witness ==
    /\ Asked("searchInData")
    /\ query.args.searchQuery = <<" ">>
    /\ PairsOf(query.data) # {}
    /\ query.answer = <<>>

\* the device of a pair has the query as its id, case ignored
ExactId(pair, term) == toLowerCase(pair.device.devid) = toLowerCase(term)

\* C14: when the trimmed query is the id of some device, case ignored, the first
\* result is a device of that id, and no pair without that id stands ahead of a
\* pair with it.
C14_ExactIdFirst ==
    Asked("searchInData") =>
        LET term == trim(query.args.searchQuery)
            answer == query.answer
        IN  (\E pair \in PairsOf(query.data) : ExactId(pair, term)) =>
                /\ answer # <<>>
                /\ ExactId(answer[1], term)
                /\ \A i, j \in 1..Len(answer) :
                      (i < j /\ ExactId(answer[j], term)) => ExactId(answer[i], term)

\* the exact device is visited after a device whose name contains the query
C14_Witness ==
    /\ Asked("searchInData")
    /\ query.args.searchQuery = <<"0", "0", "a", "1">>
    /\ Len(query.answer) >= 2
    /\ ExactId(query.answer[1], <<"0", "0", "a", "1">>)
    /\ ~ExactId(query.answer[2], <<"0", "0", "a", "1">>)
    /\ searchInDataUnsorted(query.data, query.args.searchQuery) # query.answer

\* the vendors of a dataset
VendorsOf(data) == {data[n].val : n \in 1..Len(data)}

\* C15 as claimed: a search with a vendor's full name returns a list that is not
\* empty and whose first element's vendor has that name.
C15_VendorNameFirst ==
    Asked("searchInData") =>
        \A vendor \in VendorsOf(query.data) :
            vendor.name = query.args.searchQuery =>
                /\ query.answer # <<>>
                /\ query.answer[1].vendor.name = vendor.name

\* C15 amended: a search with a vendor's full name, if not blank, returns every
\* device of that vendor paired with it (so a list that is not empty when the
\* vendor has a device), and its first element is a pair of the highest score of
\* the dataset, whichever vendor it belongs to.
C15_VendorNameFindsItsDevices ==
    Asked("searchInData") =>
        \A vendor \in VendorsOf(query.data) :
            (vendor.name = query.args.searchQuery /\ trim(vendor.name) # <<>>) =>
                LET answer == query.answer
                    term == trim(query.args.searchQuery)
                IN  /\ \A pair \in PairsOf(query.data) :
                          pair.vendor = vendor => \E i \in 1..Len(answer) : answer[i] = pair
                    /\ vendor.devices # <<>> => answer # <<>>
                    /\ answer # <<>> =>
                          \A pair \in PairsOf(query.data) :
                              Score(answer[1], term) >= Score(pair, term)

\* the vendor searched by name has a device, and another vendor's device comes first
C15_Witness ==
    /\ Asked("searchInData")
    /\ query.args.searchQuery = <<"A", "b">>
    /\ \E vendor \in VendorsOf(query.data) :
          /\ vendor.name = query.args.searchQuery
          /\ vendor.devices # <<>>
          /\ \E i \in 1..Len(query.answer) : query.answer[i].vendor = vendor
    /\ query.answer[1].vendor.name # query.args.searchQuery

\* the vendor's id is the filter string
IdAsStringFilter(data, filter) ==
    /\ filter.kind = "string"
    /\ HasKey(data, filter.value)

\* C16 as claimed: filterVendors with a present vendor id as a string filter
\* returns exactly one vendor, the one of that id, and getVendor returns it.
C16_IdFilterFindsOneVendor ==
    /\ (Asked("filterVendors") /\ IdAsStringFilter(query.data, query.args.filter)) =>
          /\ Len(query.answer) = 1
          /\ query.answer[1].vendor = query.args.filter.value
    /\ (Asked("getVendor") /\ IdAsStringFilter(query.data, query.args.filter)) =>
          /\ query.answer # Null
          /\ query.answer.vendor = query.args.filter.value

\* C16 amended: filterVendors with a present vendor id as a string filter
\* returns, in the order of the dataset, exactly the vendors whose id or name
\* contains the id, case ignored: the vendor of that id among them, and it alone
\* when no other vendor's id or name contains the id; getVendor returns the
\* first of them, which may be another vendor.
C16_IdFilterFindsVendorAmongMatches ==
    /\ (Asked("filterVendors") /\ IdAsStringFilter(query.data, query.args.filter)) =>
          LET v == query.args.filter.value
              answer == query.answer
              matches == {vendor \in VendorsOf(query.data) :
                             \/ ContainsIgnoringCase(vendor.vendor, v)
                             \/ ContainsIgnoringCase(vendor.name, v)}
          IN  /\ {answer[i] : i \in 1..Len(answer)} = matches
              /\ Len(answer) = Cardinality(matches)
              /\ ObjGet(query.data, v) \in matches
              /\ answer = SelectSeq(ObjValues(query.data), LAMBDA vendor : vendor \in matches)
    /\ (Asked("getVendor") /\ IdAsStringFilter(query.data, query.args.filter)) =>
          LET v == query.args.filter.value IN
          /\ query.answer # Null
          /\ query.answer = filterVendors(query.data, query.args.filter)[1]
          /\ \/ ContainsIgnoringCase(query.answer.vendor, v)
             \/ ContainsIgnoringCase(query.answer.name, v)

\* getVendor with a vendor's id answers with another vendor, whose name contains the id
C16_Witness ==
    /\ Asked("getVendor")
    /\ IdAsStringFilter(query.data, query.args.filter)
    /\ query.answer # Null
    /\ query.answer.vendor # query.args.filter.value

\* the reference filter on an entry's id and name: no filter keeps it; a
\* string, if id or name contains it; a function, if it accepts; an object, if
\* every field given holds: id in the id, name in the name, search in id or name
ReferenceKeeps(filter, id, name) ==
    CASE filter.kind = "undefined" -> TRUE
      [] filter.kind = "string" ->
            ContainsIgnoringCase(id, filter.value) \/ ContainsIgnoringCase(name, filter.value)
      [] filter.kind = "function" -> CallFilter(filter, id, name)
      [] filter.kind = "object" ->
            /\ filter.id.present => ContainsIgnoringCase(id, filter.id.value)
            /\ filter.name.present => ContainsIgnoringCase(name, filter.name.value)
            /\ filter.search.present =>
                  \/ ContainsIgnoringCase(id, filter.search.value)
                  \/ ContainsIgnoringCase(name, filter.search.value)

\* C17: filterVendors and filterDevices keep, in their order, exactly the entries
\* the reference filter keeps, for every dataset and every filter.
C17_FiltersEqualReference ==
    /\ Asked("filterVendors") =>
          query.answer =
              SelectSeq(ObjValues(query.data),
                        LAMBDA vendor : ReferenceKeeps(query.args.filter, vendor.vendor, vendor.name))
    /\ Asked("filterDevices") =>
          query.answer =
              SelectSeq(ObjValues(query.args.vendor.devices),
                        LAMBDA device : ReferenceKeeps(query.args.filter, device.devid, device.devname))

\* an object filter whose search holds and whose id does not
C17_Witness ==
    /\ Asked("filterVendors")
    /\ query.args.filter = ObjectFilter(Present(<<"0", "0", "A">>), Absent, Present(<<"a", "b">>))
    /\ Len(query.data) = 2
    /\ query.answer = <<>>

\* C18: getDevices answers the empty list when no vendor has the id; getDevice
\* answers null when the vendor id is no vendor's or the device id is no key of
\* the vendor's devices, and the device under that key otherwise.
C18_LookupMisses ==
    /\ (Asked("getDevices") /\ ~HasKey(query.data, query.args.vendorId)) => query.answer = <<>>
    /\ Asked("getDevice") =>
          IF /\ HasKey(query.data, query.args.vendorId)
             /\ HasKey(ObjGet(query.data, query.args.vendorId).devices, query.args.deviceId)
          THEN query.answer =
                  ObjGet(ObjGet(query.data, query.args.vendorId).devices, query.args.deviceId)
          ELSE query.answer = Null

----------------------------------------------------------------------------
(* The download loop of src/fetcher.ts, one origin at a time *)

MaxOrigins == 3

\* what downloadFile(url) ends with: resolve(data), the body being possibly empty,
\* or reject with Error(`HTTP ${statusCode}: ...`) or with the socket's error
OriginAnswers ==
    {[ok |-> TRUE, body |-> b] : b \in {<<>>, RegistryA}}
        \cup {[ok |-> FALSE, error |-> [message |-> m]] : m \in {"HTTP 404", "ECONNRESET"}}

\* new Error('All download attempts failed')
AllDownloadAttemptsFailed == [message |-> "All download attempts failed"]

\* downloadFromUrls(urls) before its loop: lastError = null, no origin contacted;
\* answers[i] is what the i-th origin would answer if asked
LoopStart(urls, answers) ==
    [pc |-> "loop", urls |-> urls, answers |-> answers, i |-> 1,
     lastError |-> Null, contacted |-> <<>>]

\* tryUrl with the return forgotten: a success is kept and the loop goes on
tryUrlKeepGoing(f) ==
    LET url == f.urls[f.i]
        answer == f.answers[f.i]
        asked == [f EXCEPT !.contacted = Append(@, url), !.i = @ + 1]
    IN  IF answer.ok
        THEN IF f.i = Len(f.urls)
             THEN [pc |-> "resolved", urls |-> f.urls, answers |-> f.answers,
                   contacted |-> asked.contacted, content |-> answer.body]
             ELSE asked
        ELSE [asked EXCEPT !.lastError = answer.error]

\* one turn of for (const url of urls): await downloadFile(url); return the content
\* or keep the error as lastError and go on
tryUrl(f) ==
    LET url == f.urls[f.i]
        answer == f.answers[f.i]
        asked == [f EXCEPT !.contacted = Append(@, url), !.i = @ + 1]
    IN  IF answer.ok
        THEN [pc |-> "resolved", urls |-> f.urls, answers |-> f.answers,
              contacted |-> asked.contacted, content |-> answer.body]
        ELSE [asked EXCEPT !.lastError = answer.error]

\* throw lastError || new Error('All download attempts failed')
throwLast(f) ==
    [pc |-> "rejected", urls |-> f.urls, answers |-> f.answers,
     contacted |-> f.contacted,
     error |-> IF f.lastError # Null THEN f.lastError ELSE AllDownloadAttemptsFailed]

UrlLists == UNION {[1..n -> {"linux-usb.org", "raw.githubusercontent.com"}] : n \in 0..MaxOrigins}

InitDownload ==
    /\ \E urls \in UrlLists :
          \E answers \in [1..Len(urls) -> OriginAnswers] :
              fetcher = LoopStart(urls, answers)
    /\ diff = [pc |-> "off"]
    /\ cache = [pc |-> "off"]
    /\ ui = [pc |-> "off"]
    /\ files = [f \in FileNames |-> NoFile]
    /\ clock = 0
    /\ call = [p \in Procs |-> IdleCall]
    /\ parserIdle
    /\ gateIdle
    /\ queryIdle
    /\ streak = NoStreak

TryUrl ==
    /\ fetcher.pc = "loop"
    /\ fetcher.i <= Len(fetcher.urls)
    /\ fetcher' = tryUrl(fetcher)
    /\ UNCHANGED <<files, clock, call, content, result, gate, query, streak, diff, cache, ui>>

ThrowLast ==
    /\ fetcher.pc = "loop"
    /\ fetcher.i > Len(fetcher.urls)
    /\ fetcher' = throwLast(fetcher)
    /\ UNCHANGED <<files, clock, call, content, result, gate, query, streak, diff, cache, ui>>

NextDownload == TryUrl \/ ThrowLast

SpecDownload == InitDownload /\ [][NextDownload]_vars

\* the origins before position k all failed
FailedBefore(f, k) == \A j \in 1..(k - 1) : ~f.answers[j].ok

\* C21: downloadFromUrls contacts the origins in list order; it resolves with the
\* content of the first origin that succeeds and has then contacted no later
\* origin; it rejects only when every origin has failed, with the last origin's
\* error, or with 'All download attempts failed' when the list is empty.
C21_FirstSuccessWins ==
    /\ fetcher.pc # "off" =>
          fetcher.contacted = SubSeq(fetcher.urls, 1, Len(fetcher.contacted))
    /\ fetcher.pc = "resolved" =>
          \E k \in 1..Len(fetcher.urls) :
              /\ fetcher.answers[k].ok
              /\ FailedBefore(fetcher, k)
              /\ fetcher.content = fetcher.answers[k].body
              /\ Len(fetcher.contacted) = k
    /\ fetcher.pc = "rejected" =>
          /\ \A k \in 1..Len(fetcher.urls) : ~fetcher.answers[k].ok
          /\ fetcher.contacted = fetcher.urls
          /\ fetcher.error =
                IF fetcher.urls = <<>> THEN AllDownloadAttemptsFailed
                ELSE fetcher.answers[Len(fetcher.urls)].error

\* the second of three origins answers after the first failed; the third would answer too
C21_Witness ==
    /\ fetcher.pc = "resolved"
    /\ Len(fetcher.urls) = 3
    /\ ~fetcher.answers[1].ok
    /\ fetcher.answers[2].ok
    /\ fetcher.answers[3].ok
    /\ fetcher.answers[3].body # fetcher.answers[2].body
    /\ Len(fetcher.contacted) = 2

----------------------------------------------------------------------------
(* The diff-hash script of src/scripts/diff-hash.ts *)

\* the version records a refresh leaves behind: made of downloaded registry text,
\* or, in the fallback branch, of the JSON text of the dataset
LocalVersions ==
    UNION {{CreateVersionInfoOf(cmd, parseUsbIds(text), RawText(text), "api", t),
            CreateVersionInfoOf(cmd, parseUsbIds(text), JsonText(parseUsbIds(text), 0),
                                "fallback", t)} :
           cmd \in {"cli", "script"}, text \in {RegistryA, RegistryB}, t \in 0..MaxFetchTime}

\* getRemoteContentHash: null when downloadFromUrls threw or the content is falsy
getRemoteContentHash(downloaded) ==
    IF ~Truthy(downloaded) THEN Null ELSE generateContentHash(RawText(downloaded.text))

\* exitCode with the comparison forgotten: any local record counts as up to date
exitCodeAnyLocal(localInfo, remoteHash) ==
    IF remoteHash = Null THEN 1
    ELSE IF localInfo = NoVersion THEN 1
    ELSE 0

\* diffHash after both reads: the argument of the process.exit that is reached
exitCode(localInfo, remoteHash) ==
    IF remoteHash = Null THEN 1
    ELSE IF localInfo = NoVersion THEN 1
    ELSE IF remoteHash = localInfo.contentHash THEN 0
    ELSE 1

InitDiff ==
    /\ diff = [pc |-> "start"]
    /\ \E record \in {NoFile} \cup {JsonText(v, 2) : v \in LocalVersions} :
          files = [f \in FileNames |-> IF f = USB_IDS_VERSION_JSON_FILE THEN record ELSE NoFile]
    /\ fetcher = [pc |-> "off"]
    /\ cache = [pc |-> "off"]
    /\ ui = [pc |-> "off"]
    /\ clock = 0
    /\ call = [p \in Procs |-> IdleCall]
    /\ parserIdle
    /\ gateIdle
    /\ queryIdle
    /\ streak = NoStreak

\* const localInfo = getLocalVersionInfo(), before the download is awaited
GetLocalVersionInfo ==
    /\ diff.pc = "start"
    /\ diff' = [pc |-> "downloading",
                localInfo |-> loadVersionInfo(files, USB_IDS_VERSION_JSON_FILE)]
    /\ UNCHANGED <<files, clock, call, content, result, gate, query, streak, fetcher, cache, ui>>

\* the download ends, each origin having answered in some way; the script exits
DiffExit ==
    /\ diff.pc = "downloading"
    /\ \E responses \in [1..Len(USB_IDS_SOURCE) -> Responses] :
          LET downloaded == downloadFromUrls(responses)
              remoteHash == getRemoteContentHash(downloaded)
          IN  diff' = [pc |-> "exited", localInfo |-> diff.localInfo,
                       responses |-> responses, downloaded |-> downloaded,
                       code |-> exitCode(diff.localInfo, remoteHash)]
    /\ UNCHANGED <<files, clock, call, content, result, gate, query, streak, fetcher, cache, ui>>

NextDiff == GetLocalVersionInfo \/ DiffExit

SpecDiff == InitDiff /\ [][NextDiff]_vars

----------------------------------------------------------------------------
(* Two commands at once on one root.  Each await of fetchUsbIdsData          *)
(* (downloadFromUrls, saveRawUsbIdsFile, saveVersionInfo) and of the CLI     *)
(* lets the other command run; nothing in the code locks the root.  The      *)
(* commands run within one reading of the clock.                             *)

Racers == {"r1", "r2"}

InitRace ==
    /\ files = [f \in FileNames |-> NoFile]
    /\ clock = 0
    /\ call = [p \in Racers |-> IdleCall]
    /\ parserIdle
    /\ gateIdle
    /\ queryIdle
    /\ streak = NoStreak
    /\ othersIdle

NextRace ==
    \/ \E p \in Racers, forceUpdate \in BOOLEAN : CliUpdate(p, forceUpdate)
    \/ \E p \in Racers : Download(p)
    \/ \E p \in Racers : Parse(p)
    \/ \E p \in Racers : SaveJson(p)
    \/ \E p \in Racers : SaveVersion(p)
    \/ \E p \in Racers : Finish(p)

SpecRace == InitRace /\ [][NextRace]_vars

\* the call wrote a version record that differs from the one it had read
Published(c) ==
    /\ c.wroteVersion
    /\ c.ret.versionInfo # c.existingVersion

\* C23: refreshes serialize: no two calls of fetchUsbIdsData that read the same
\* previous version record both write a new version record.
C23_RefreshesSerialize ==
    \A p \in DOMAIN call, q \in DOMAIN call :
        (p # q /\ Published(call[p]) /\ Published(call[q])) =>
            call[p].existingVersion # call[q].existingVersion

----------------------------------------------------------------------------
(* The async API after its first download *)

\* C24: once a query of the async API has downloaded and parsed the registry, a
\* following query without forceUpdate inside the 24 hours succeeds, downloads
\* nothing, and returns the dataset of the downloaded registry.
C24_SecondQueryServedLocally ==
    \A p \in Procs :
        (Answered(p) /\ query.loaded /\ ~call[p].forceUpdate /\ ~call[p].gateOpen) =>
            /\ call[p].downloads = 0
            /\ query.pc = "resolved"
            /\ query.data = parseUsbIds(files[USB_IDS_FILE].text)

----------------------------------------------------------------------------
(* Where parseUsbIds stores a device line *)

\* the dataset after the first k lines
ParsedUpTo(lines, k) == ParseLines([result |-> <<>>, currentVendor |-> NoVendor, threw |-> FALSE],
                                   SubSeq(lines, 1, k)).result

\* the well-formed vendor headers above line k
HeadersAbove(lines, k) == {j \in 1..(k - 1) : WellFormedVendorHeader(lines[j])}

\* the most recent of them
MostRecentHeader(lines, k) ==
    CHOOSE h \in HeadersAbove(lines, k) : \A j \in HeadersAbove(lines, k) : j <= h

\* the vendor w is the same, or as absent, in both datasets
SameVendor(before, after, w) ==
    /\ HasKey(before, w) <=> HasKey(after, w)
    /\ HasKey(before, w) => ObjGet(before, w) = ObjGet(after, w)

\* C25: a well-formed single-tab device line is stored under the vendor of the
\* most recent well-formed vendor header above it and under no other vendor;
\* malformed lines, comments, blank lines and lines of two or more tabs store
\* nothing and do not change which vendor that is; a device line with no header
\* above it is stored nowhere.
C25_DeviceGoesToMostRecentVendor ==
    result.done =>
        LET lines == split(content, "\n") IN
        /\ result.data = ParsedUpTo(lines, Len(lines))
        /\ \A k \in 1..Len(lines) :
              LET before == ParsedUpTo(lines, k - 1)
                  after == ParsedUpTo(lines, k)
              IN  IF WellFormedVendorHeader(lines[k]) THEN TRUE
                  ELSE IF WellFormedDeviceLine(lines[k]) /\ HeadersAbove(lines, k) # {}
                  THEN LET v == HeaderId(lines[MostRecentHeader(lines, k)])
                           id == toLowerCase(DeviceMatch(lines[k]).id)
                       IN  /\ HasKey(ObjGet(after, v).devices, id)
                           /\ ObjGet(ObjGet(after, v).devices, id) =
                                 [devid |-> id, devname |-> trim(DeviceMatch(lines[k]).name)]
                           /\ ObjKeys(after) = ObjKeys(before)
                           /\ \A n \in 1..Len(after) :
                                 after[n].key # v => SameVendor(before, after, after[n].key)
                  ELSE after = before

\* two headers, then a device line: the device is stored under the second
\* vendor only
C25_Witness ==
    /\ result.done
    /\ split(content, "\n") =
          <<<<"1", "2", "3", "4", " ", "A">>, <<"0", "5", "A", "C", " ", "B">>,
            <<"\t", "0", "0", "a", "1", " ", "D">>>>
    /\ ObjGet(result.data, <<"1", "2", "3", "4">>).devices = <<>>
    /\ HasKey(ObjGet(result.data, <<"0", "5", "a", "c">>).devices, <<"0", "0", "a", "1">>)

----------------------------------------------------------------------------
(* The keys of a parsed dataset *)

LowerHexDigits == {"0", "1", "2", "3", "4", "5", "6", "7", "8", "9", "a", "b", "c", "d", "e", "f"}

\* exactly four lowercase hexadecimal digits
IsLowerHexId(id) == Len(id) = 4 /\ \A i \in 1..4 : id[i] \in LowerHexDigits

\* C28: in every dataset parseUsbIds returns, each vendor key is exactly four
\* lowercase hex digits and equals the entry's vendor field, and each device key
\* of each vendor is exactly four lowercase hex digits and equals the entry's
\* devid field.
C28_KeysMatchIdFields ==
    result.done =>
        \A n \in 1..Len(result.data) :
            LET devices == result.data[n].val.devices IN
            /\ IsLowerHexId(result.data[n].key)
            /\ result.data[n].val.vendor = result.data[n].key
            /\ \A m \in 1..Len(devices) :
                  /\ IsLowerHexId(devices[m].key)
                  /\ devices[m].val.devid = devices[m].key

\* a header and a device line written in upper case
C28_Witness ==
    /\ result.done
    /\ split(content, "\n") =
          <<<<"0", "5", "A", "C", " ", "B">>, <<"\t", "0", "0", "A", "1", " ", "E">>>>
    /\ Len(result.data) = 1
    /\ result.data[1].key = <<"0", "5", "a", "c">>
    /\ result.data[1].val.devices[1].key = <<"0", "0", "a", "1">>

----------------------------------------------------------------------------
(* The CLI's update command *)

\* the step is the start of `usb-ids update` by process p
StartsCliUpdate(p) ==
    /\ Free(p)
    /\ call'[p] # call[p]
    /\ call'[p].cmd = "cli"

\* C26: `usb-ids update` calls fetchUsbIdsData exactly when --force is given or
\* shouldUpdate answers true for the current version record; without --force
\* and with a record younger than 24 hours it returns without a download and
\* without writing any file; with --force the download is attempted whatever
\* the record's age.
C26_CliFetchesIffForcedOrDue ==
    [][\A p \in Procs :
          StartsCliUpdate(p) =>
              LET currentVersionInfo == loadVersionInfo(files, USB_IDS_VERSION_JSON_FILE)
                  due == \/ currentVersionInfo = NoVersion
                         \/ clock - currentVersionInfo.fetchTime >= 24 * MsPerHour
              IN  /\ Called(call'[p]) <=> (call'[p].forceUpdate \/ due)
                  /\ Called(call'[p]) => call'[p].downloads = 1
                  /\ ~Called(call'[p]) =>
                        /\ call'[p].pc = "done"
                        /\ call'[p].downloads = 0
                        /\ files' = files]_vars

\* the command has returned at once on a record younger than 24 hours
C26_Witness ==
    \E p \in Procs :
        /\ call[p].cmd = "cli"
        /\ call[p].pc = "done"
        /\ ~Called(call[p])
        /\ call[p].existingVersion # NoVersion
        /\ clock - call[p].existingVersion.fetchTime = DayInMs - 1

----------------------------------------------------------------------------
(* After a refresh that ended Unchanged on equal hashes *)

\* C29: after a refresh without force has ended Unchanged because the hashes
\* were equal, the persisted fetchTime is not advanced, so the gate stays open:
\* every later call of fetchUsbIdsData without force downloads again, until the
\* remote content changes or a forced update is made.
C29_UnchangedKeepsGateOpen ==
    streak.active =>
        \A p \in Procs :
            (Called(call[p]) /\ ~call[p].forceUpdate) =>
                /\ call[p].gateOpen
                /\ call[p].downloads > 0

----------------------------------------------------------------------------
(* The cached API variant (src/unnamed/part_008): ensureData keeps the       *)
(* dataset of the last successful fetch in memory for five minutes.          *)

CACHE_DURATION == 5 * 60 * 1000

MaxTicks == 3

MaxInFlight == 2

\* cachedData when it is a dataset and not null
Cached(data) == [kind |-> "object", value |-> data]

\* let cachedData = null; let cacheTimestamp = 0; no query in flight.  ticks
\* counts the clock's advances; fetched (history) tells that a fetch has
\* succeeded since the last clearCache; last is the call just made and its answer
CacheStart ==
    [pc |-> "on", cachedData |-> Null, cacheTimestamp |-> 0, pending |-> {},
     ticks |-> 0, fetched |-> FALSE, last |-> [op |-> "none"]]

\* CacheHit with the cache still served at the age of CACHE_DURATION
CacheHitInclusive(c, forceUpdate, now) ==
    /\ ~forceUpdate
    /\ c.cachedData # Null
    /\ (now - c.cacheTimestamp) <= CACHE_DURATION

\* if (!forceUpdate && cachedData && (now - cacheTimestamp) < CACHE_DURATION)
CacheHit(c, forceUpdate, now) ==
    /\ ~forceUpdate
    /\ c.cachedData # Null
    /\ (now - c.cacheTimestamp) < CACHE_DURATION

\* getCacheInfo()
getCacheInfo(c, now) ==
    [hasCache |-> c.cachedData # Null,
     cacheAge |-> IF c.cachedData # Null THEN now - c.cacheTimestamp ELSE 0]

InitCache ==
    /\ cache = CacheStart
    /\ clock = 0
    /\ fetcher = [pc |-> "off"]
    /\ diff = [pc |-> "off"]
    /\ ui = [pc |-> "off"]
    /\ files = [f \in FileNames |-> NoFile]
    /\ call = [p \in Procs |-> IdleCall]
    /\ parserIdle
    /\ gateIdle
    /\ queryIdle
    /\ streak = NoStreak

\* an async query: ensureData(forceUpdate) up to its await, or to its return of
\* the cached data
CachedQuery ==
    /\ cache.pc = "on"
    /\ \E forceUpdate \in BOOLEAN :
          IF CacheHit(cache, forceUpdate, clock)
          THEN cache' = [cache EXCEPT !.last = [op |-> "query", forceUpdate |-> forceUpdate,
                                                calledFetch |-> FALSE,
                                                answer |-> cache.cachedData]]
          ELSE /\ Cardinality(cache.pending) < MaxInFlight
               /\ [now |-> clock, forceUpdate |-> forceUpdate] \notin cache.pending
               /\ cache' = [cache EXCEPT
                               !.pending = @ \cup {[now |-> clock, forceUpdate |-> forceUpdate]},
                               !.last = [op |-> "query", forceUpdate |-> forceUpdate,
                                         calledFetch |-> TRUE]]
    /\ UNCHANGED <<files, clock, call, content, result, gate, query, streak, fetcher, diff, ui>>

\* fetchUsbIdsData returns: cachedData = data; cacheTimestamp = now (the query's now)
FetchReturns ==
    /\ cache.pc = "on"
    /\ \E q \in cache.pending, text \in {RegistryA, RegistryB} :
          cache' = [cache EXCEPT !.pending = @ \ {q},
                                 !.cachedData = Cached(parseUsbIds(text)),
                                 !.cacheTimestamp = q.now,
                                 !.fetched = TRUE,
                                 !.last = [op |-> "fetchReturned"]]
    /\ UNCHANGED <<files, clock, call, content, result, gate, query, streak, fetcher, diff, ui>>

\* fetchUsbIdsData throws: the cached data is returned if there is any, else the
\* error is rethrown; the cache is left as it is
FetchThrows ==
    /\ cache.pc = "on"
    /\ \E q \in cache.pending :
          cache' = [cache EXCEPT !.pending = @ \ {q},
                                 !.last = [op |-> "fetchThrew",
                                           rejected |-> cache.cachedData = Null]]
    /\ UNCHANGED <<files, clock, call, content, result, gate, query, streak, fetcher, diff, ui>>

\* clearCache()
ClearCache ==
    /\ cache.pc = "on"
    /\ cache' = [cache EXCEPT !.cachedData = Null, !.cacheTimestamp = 0,
                              !.fetched = FALSE, !.last = [op |-> "clearCache"]]
    /\ UNCHANGED <<files, clock, call, content, result, gate, query, streak, fetcher, diff, ui>>

\* getCacheInfo()
GetCacheInfo ==
    /\ cache.pc = "on"
    /\ cache' = [cache EXCEPT !.last = [op |-> "getCacheInfo",
                                        info |-> getCacheInfo(cache, clock)]]
    /\ UNCHANGED <<files, clock, call, content, result, gate, query, streak, fetcher, diff, ui>>

\* Date.now() advances, by a millisecond or by a millisecond less than CACHE_DURATION
CacheTick ==
    /\ cache.pc = "on"
    /\ cache.ticks < MaxTicks
    /\ \E d \in {1, CACHE_DURATION - 1} : clock' = clock + d
    /\ cache' = [cache EXCEPT !.ticks = @ + 1, !.last = [op |-> "none"]]
    /\ UNCHANGED <<files, call, content, result, gate, query, streak, fetcher, diff, ui>>

NextCache ==
    \/ CachedQuery
    \/ FetchReturns
    \/ FetchThrows
    \/ ClearCache
    \/ GetCacheInfo
    \/ CacheTick

SpecCache == InitCache /\ [][NextCache]_vars

\* C27: after any sequence of async queries and clearCache calls, hasCache is
\* true exactly when a fetch has succeeded since the most recent clearCache, and
\* cacheAge is 0 when hasCache is false; a query without forceUpdate calls
\* fetchUsbIdsData exactly when there is no cache or the cache is at least five
\* minutes old.
C27_CacheFollowsFetches ==
    cache.pc = "on" =>
        /\ getCacheInfo(cache, clock).hasCache <=> cache.fetched
        /\ cache.last.op = "getCacheInfo" =>
              /\ cache.last.info.hasCache <=> cache.fetched
              /\ ~cache.last.info.hasCache => cache.last.info.cacheAge = 0
        /\ (cache.last.op = "query" /\ ~cache.last.forceUpdate) =>
              (cache.last.calledFetch <=>
                  \/ ~cache.fetched
                  \/ clock - cache.cacheTimestamp >= 300000)

\* a query at the cache's age of exactly five minutes calls fetchUsbIdsData,
\* a fetch having returned after the last clearCache
C27_Witness ==
    /\ cache.pc = "on"
    /\ cache.fetched
    /\ cache.last.op = "query"
    /\ ~cache.last.forceUpdate
    /\ cache.last.calledFetch
    /\ clock - cache.cacheTimestamp = 300000

----------------------------------------------------------------------------
(* The web UI's pagination (src/src/main.ts).  Of currentResults only the    *)
(* length matters to the page handlers.                                      *)

\* let itemsPerPage = 50
DefaultItemsPerPage == 50

MaxResultPages == 3

\* the lengths currentResults may have: whole default pages, and one more result
ResultCounts ==
    {k * DefaultItemsPerPage : k \in 0..MaxResultPages}
        \cup {k * DefaultItemsPerPage + 1 : k \in 0..MaxResultPages}

\* the values of #pageSizeSelect's options: positive integers (the page that
\* declares them is not among the sources)
PageSizeOptions == {20, DefaultItemsPerPage, 100}

\* Math.ceil(totalItems / itemsPerPage), itemsPerPage positive
CeilDiv(totalItems, itemsPerPage) == (totalItems + itemsPerPage - 1) \div itemsPerPage

\* Math.max(1, totalPages)
Max1(totalPages) == IF totalPages > 1 THEN totalPages ELSE 1

\* Number.parseInt(elements.pageJumpInput.value, 10): NaN or an integer
JumpInputs ==
    {[isNaN |-> TRUE]}
        \cup {[isNaN |-> FALSE, value |-> k] :
                 k \in (0 - 1)..(CeilDiv(MaxResultPages * DefaultItemsPerPage + 1, 20) + 1)}

\* handleSearch: currentResults = searchUsbData(...); currentPage = 1
handleSearch(u, found) ==
    [u EXCEPT !.results = found, !.currentPage = 1, !.last = "search"]

\* changePage(direction)
changePage(u, direction) ==
    LET totalPages == CeilDiv(u.results, u.itemsPerPage) IN
    [u EXCEPT !.currentPage =
                  IF direction = "prev" /\ u.currentPage > 1 THEN u.currentPage - 1
                  ELSE IF direction = "next" /\ u.currentPage < totalPages
                  THEN u.currentPage + 1
                  ELSE u.currentPage,
              !.last = direction]

\* handlePageSizeChange with the current page left where it was
handlePageSizeChangeNoClamp(u, newPageSize) ==
    [u EXCEPT !.itemsPerPage = newPageSize, !.last = "pageSize"]

\* handlePageSizeChange: the new size, and the current page brought back into range
handlePageSizeChange(u, newPageSize) ==
    LET totalPages == CeilDiv(u.results, newPageSize) IN
    [u EXCEPT !.itemsPerPage = newPageSize,
              !.currentPage = IF u.currentPage > totalPages THEN Max1(totalPages)
                              ELSE u.currentPage,
              !.last = "pageSize"]

\* handlePageJump: a target out of range, or NaN, leaves the current page
handlePageJump(u, targetPage) ==
    LET totalPages == CeilDiv(u.results, u.itemsPerPage) IN
    [u EXCEPT !.currentPage =
                  IF /\ ~targetPage.isNaN
                     /\ targetPage.value >= 1
                     /\ targetPage.value <= totalPages
                  THEN targetPage.value
                  ELSE u.currentPage,
              !.last = "jump"]

\* the page once initializeApp has run its first handleSearch
InitUi ==
    /\ \E found \in ResultCounts :
          ui = handleSearch([pc |-> "on", results |-> 0, currentPage |-> 1,
                             itemsPerPage |-> DefaultItemsPerPage, last |-> "none"], found)
    /\ fetcher = [pc |-> "off"]
    /\ diff = [pc |-> "off"]
    /\ cache = [pc |-> "off"]
    /\ files = [f \in FileNames |-> NoFile]
    /\ clock = 0
    /\ call = [p \in Procs |-> IdleCall]
    /\ parserIdle
    /\ gateIdle
    /\ queryIdle
    /\ streak = NoStreak

HandleSearch ==
    /\ ui.pc = "on"
    /\ \E found \in ResultCounts : ui' = handleSearch(ui, found)
    /\ UNCHANGED <<files, clock, call, content, result, gate, query, streak, fetcher, diff, cache>>

ChangePage ==
    /\ ui.pc = "on"
    /\ \E direction \in {"prev", "next"} : ui' = changePage(ui, direction)
    /\ UNCHANGED <<files, clock, call, content, result, gate, query, streak, fetcher, diff, cache>>

HandlePageSizeChange ==
    /\ ui.pc = "on"
    /\ \E newPageSize \in PageSizeOptions : ui' = handlePageSizeChange(ui, newPageSize)
    /\ UNCHANGED <<files, clock, call, content, result, gate, query, streak, fetcher, diff, cache>>

HandlePageJump ==
    /\ ui.pc = "on"
    /\ \E targetPage \in JumpInputs : ui' = handlePageJump(ui, targetPage)
    /\ UNCHANGED <<files, clock, call, content, result, gate, query, streak, fetcher, diff, cache>>

NextUi == HandleSearch \/ ChangePage \/ HandlePageSizeChange \/ HandlePageJump

SpecUi == InitUi /\ [][NextUi]_vars

\* C30: after any sequence of search, previous/next page, page-jump and
\* page-size-change events, 1 <= currentPage <= max(1, ceil(results /
\* itemsPerPage)), and every search leaves currentPage at 1.
C30_CurrentPageInRange ==
    ui.pc = "on" =>
        /\ 1 <= ui.currentPage
        /\ \/ ui.currentPage = 1
           \/ (ui.currentPage - 1) * ui.itemsPerPage < ui.results
        /\ ui.last = "search" => ui.currentPage = 1

\* the page size grew while the last page was shown: the page was brought back
C30_Witness ==
    /\ ui.pc = "on"
    /\ ui.last = "pageSize"
    /\ ui.results = 151
    /\ ui.itemsPerPage = 100
    /\ ui.currentPage = 2

=============================================================================
